---- MODULE Spec2Model ----
(***************************************************************************)
(* Decision-and-risk pipeline of the NBA betting agent and the state       *)
(* machine that drives it (agent/controller.py, agent/modules/*.py).       *)
(*                                                                         *)
(* Specifications:                                                         *)
(*   SpecRisk  RiskManagementModule.validate_betting_decisions applied to  *)
(*             decision lists and ledger readings drawn from bounded sets; *)
(*   Spec      AgentController.start() with its state handlers, the        *)
(*             modules they call and the memory collaborator;              *)
(*   SpecLive  the same loop under weak fairness of the loop body;         *)
(*   SpecSignal  the same loop with the process's signal handler;          *)
(*   SpecDay   the risk assessment and execution ticks of a cycle whose    *)
(*             reasoning proposed more bets than the day allows;           *)
(*   SpecExec, SpecDecide, SpecReason, SpecSleep, SpecFloor, SpecReads,    *)
(*   SpecAgain                                                             *)
(*             calls of module functions on bounded inputs;                *)
(*   SpecMode  main() up to the controller's construction, then a call of  *)
(*             execute_betting_actions;                                    *)
(*   SpecCache the memory client's cache under searches and writes.        *)
(*                                                                         *)
(* A Python float is an IEEE-754 binary64 value [sign, m, e]: the          *)
(* reasoning module computes in floats and what it stores is handed on as  *)
(* it is.  A Python int n is the record [n, d] with d = 1; an operation    *)
(* with a float operand is a float operation, a decimal literal (0.1,      *)
(* 0.25) is a float and a / b is a float whatever the operands.  The       *)
(* Python value None is the record with d = 0.                             *)
(***************************************************************************)
EXTENDS Integers, Sequences, FiniteSets, TLC

VARIABLES
    \* ---- SpecRisk: one call of validate_betting_decisions ----
    rpc,        \* "ready" before the call, "done" after it, "raised" if it threw;
                \* "again" / "same" after a second call
    rHeap,      \* the Python objects (dicts) alive, addressed by index
    rHeap0,     \* the heap as it was when the call started
    rInput,     \* the list passed in: a sequence of heap addresses
    rOutput,    \* the list returned: a sequence of heap addresses
    rFirstPass, \* the decisions after the first pass (values), before portfolio scaling
    rTrace,     \* per input decision, the checks validate_betting_decision ran
    rBankroll,  \* RiskManagementModule.bankroll
    rBankroll0, \* the bankroll when the call started
    rLedger,    \* what the memory returns for today's bet_placed / bet_result
                \* records; in SpecReads the records of those types it holds
    rReads,     \* SpecReads: per call made, and per decision of its list, the
                \* days datetime.now() gives the two daily checks
    rPrev,      \* SpecAgain: the decisions the previous call returned (values)
    \* ---- Spec: AgentController ----
    state,      \* AgentController.state
    is_running, \* AgentController.is_running
    loop,       \* where start() is: "not_started", "running", "stopped", "crashed",
                \* "exited" (SpecSignal: left by SystemExit)
    memory,     \* the records the memory collaborator holds, in the order added
    last_research_time, \* context value "last_research_time" (NoTime when unset)
    now,        \* time.time(), in seconds since the process started
    bankroll,   \* RiskManagementModule.bankroll
    ticks,      \* number of loop iterations run so far
    raised_in,  \* the state whose handler raised in the latest tick, or "None"
    executed,   \* the lists handed to execute_betting_actions, one entry per call
    placed,     \* the bets placed (bet_details of every call), in order
    fetch_failed, \* execute_research_tasks caught an exception in the latest tick
    validated,  \* of the records the latest tick passed through
                \* validate_betting_decisions: the tick that stored each and
                \* its "decision" mark
    fetching,   \* where _handle_research_state is while it waits in
                \* time.sleep(1) of FirecrawlUtils.fetch_injury_reports
    \* ---- SpecExec: one call of execute_betting_actions ----
    xpc,        \* "ready" before the call, "done" after it, "raised" if it threw
    xDecisions, \* the list passed in
    xArgs,      \* the mode flags on main()'s command line and the variables
                \* NBA_AGENT_AGENT__TEST_MODE, NBA_AGENT_POLYMARKET__API_KEY of
                \* its environment
    xTestMode,  \* config["agent"]["test_mode"]
    xVenue,     \* per entry of the list, what the venue does with its submission
    xAddRaises, \* which memory.add of the call raises (-1: none)
    xResult,    \* what the call returned, counted, submitted and recorded
    \* ---- SpecDecide: one call of make_betting_decision ----
    dpc,        \* "ready" before the call, "done" after it
    dInput,     \* the ev_calculation passed in
    dOutput,    \* the decision returned
    \* ---- SpecReason: the reasoning steps applied to one game ----
    qpc,        \* "ready" before the steps, "done" after them
    qInput,     \* the model probabilities, the quotes and the bankroll
    qOutput,    \* what each step returned
    \* ---- SpecSleep: the pause between two ticks ----
    slpc,       \* "ready" before the pause is computed, "done" after it
    sElapsed,   \* seconds the tick's handler took
    sSleep,     \* seconds passed to time.sleep
    \* ---- SpecCache: Mem0Client and the service behind it ----
    mpc,        \* "ready" while the client is in use
    mServer,    \* the number of writes the service has completed
    mCache,     \* Mem0Client.cache: per key, <<>> or <<[data, timestamp]>>; data
                \* is the number of writes the cached answer reflects
    mNow,       \* time.time()
    mSeen       \* <<>> or what the latest search returned and the number of
                \* writes completed before it

riskVars == <<rpc, rHeap, rHeap0, rInput, rOutput, rFirstPass, rTrace,
              rBankroll, rBankroll0, rLedger, rReads, rPrev>>

execVars == <<xpc, xDecisions, xArgs, xTestMode, xVenue, xAddRaises, xResult>>

decideVars == <<dpc, dInput, dOutput>>

reasonVars == <<qpc, qInput, qOutput>>

sleepVars == <<slpc, sElapsed, sSleep>>

cacheVars == <<mpc, mServer, mCache, mNow, mSeen>>

callVars == <<xpc, xDecisions, xArgs, xTestMode, xVenue, xAddRaises, xResult,
              dpc, dInput, dOutput, qpc, qInput, qOutput,
              slpc, sElapsed, sSleep,
              mpc, mServer, mCache, mNow, mSeen>>

ctlVars == <<state, is_running, loop, memory, last_research_time, now, bankroll,
             ticks, raised_in, executed, placed, fetch_failed, validated,
             fetching>>

vars == <<rpc, rHeap, rHeap0, rInput, rOutput, rFirstPass, rTrace,
          rBankroll, rBankroll0, rLedger, rReads, rPrev,
          state, is_running, loop, memory, last_research_time, now, bankroll,
          ticks, raised_in, executed, placed, fetch_failed, validated,
          fetching,
          xpc, xDecisions, xArgs, xTestMode, xVenue, xAddRaises, xResult,
          dpc, dInput, dOutput, qpc, qInput, qOutput,
          slpc, sElapsed, sSleep,
          mpc, mServer, mCache, mNow, mSeen>>

-----------------------------------------------------------------------------
(* Bounds of the model *)

MaxBatch == 3
MaxTicks == 9
MaxGames == 1
MaxParsed == 1
MaxInjured == 1

-----------------------------------------------------------------------------
(* Program constants *)

initial_bankroll == 1000
min_bet == 10
max_bet == 100
min_ev_threshold == 2
daily_loss_limit == 100
daily_bet_limit == 5
loop_interval == 60
research_interval == 3600
search_limit == 10

-----------------------------------------------------------------------------
(* Arithmetic on Python ints [n, 1], and on the fractions a float is built from *)

RECURSIVE GCD(_, _)
GCD(a, b) == IF b = 0 THEN a ELSE GCD(b, a % b)

Abs(x) == IF x < 0 THEN -x ELSE x

Rat(n, d) ==
    LET s == IF d < 0 THEN -1 ELSE 1
        g == GCD(Abs(n), Abs(d))
    IN  IF n = 0 THEN [n |-> 0, d |-> 1]
        ELSE [n |-> (s * n) \div g, d |-> (s * d) \div g]

Num(k) == [n |-> k, d |-> 1]
None == [n |-> 0, d |-> 0]

QAdd(a, b) == Rat(a.n * b.d + b.n * a.d, a.d * b.d)
QMul(a, b) == Rat(a.n * b.n, a.d * b.d)
QLt(a, b) == a.n * b.d < b.n * a.d
QLe(a, b) == a.n * b.d <= b.n * a.d

-----------------------------------------------------------------------------
(* Python floats: IEEE-754 binary64, every operation                       *)
(* operation rounded to nearest, ties to even                              *)

\* A natural number of any size: its digits to the base Limb, the least
\* significant first, with no zero as the last one.
Limb == 2^14

RECURSIVE Big(_)
Big(k) == IF k = 0 THEN <<>> ELSE <<k % Limb>> \o Big(k \div Limb)

RECURSIVE Trim(_)
Trim(a) ==
    IF a # <<>> /\ a[Len(a)] = 0 THEN Trim(SubSeq(a, 1, Len(a) - 1)) ELSE a

digit(a, i) == IF i <= Len(a) THEN a[i] ELSE 0

RECURSIVE BigAddFrom(_, _, _, _)
BigAddFrom(a, b, i, carry) ==
    IF i > Len(a) /\ i > Len(b) THEN IF carry = 0 THEN <<>> ELSE <<carry>>
    ELSE <<(digit(a, i) + digit(b, i) + carry) % Limb>>
             \o BigAddFrom(a, b, i + 1, (digit(a, i) + digit(b, i) + carry) \div Limb)

BigAdd(a, b) == BigAddFrom(a, b, 1, 0)

\* a - b for a >= b
RECURSIVE BigSubFrom(_, _, _, _)
BigSubFrom(a, b, i, borrow) ==
    IF i > Len(a) THEN <<>>
    ELSE <<(digit(a, i) - digit(b, i) - borrow) % Limb>>
             \o BigSubFrom(a, b, i + 1,
                           IF digit(a, i) - digit(b, i) - borrow < 0 THEN 1 ELSE 0)

BigSub(a, b) == Trim(BigSubFrom(a, b, 1, 0))

RECURSIVE BigLtFrom(_, _, _)
BigLtFrom(a, b, i) ==
    IF i = 0 THEN FALSE
    ELSE IF a[i] # b[i] THEN a[i] < b[i]
    ELSE BigLtFrom(a, b, i - 1)

BigLt(a, b) == IF Len(a) # Len(b) THEN Len(a) < Len(b) ELSE BigLtFrom(a, b, Len(a))

\* a * k for a digit k
RECURSIVE BigScaleFrom(_, _, _, _)
BigScaleFrom(a, k, i, carry) ==
    IF i > Len(a) THEN IF carry = 0 THEN <<>> ELSE <<carry>>
    ELSE <<(a[i] * k + carry) % Limb>>
             \o BigScaleFrom(a, k, i + 1, (a[i] * k + carry) \div Limb)

BigScale(a, k) == IF k = 0 THEN <<>> ELSE BigScaleFrom(a, k, 1, 0)

\* a * Limb
Shifted(a) == IF a = <<>> THEN <<>> ELSE <<0>> \o a

RECURSIVE BigMul(_, _)
BigMul(a, b) ==
    IF a = <<>> \/ b = <<>> THEN <<>>
    ELSE BigAdd(BigScale(a, Head(b)), Shifted(BigMul(a, Tail(b))))

\* a * 2^n
BigShl(a, n) ==
    IF a = <<>> THEN <<>>
    ELSE [i \in 1..(n \div 14) |-> 0] \o BigScale(a, 2^(n % 14))

\* a without its last q digits, divided by p, for a power p of 2 below Limb
ShrBy(a, q, p) ==
    IF q >= Len(a) THEN <<>>
    ELSE Trim([i \in 1..(Len(a) - q) |->
                  (a[i + q] \div p) + (digit(a, i + q + 1) % p) * (Limb \div p)])

\* a \div 2^n
BigShr(a, n) == ShrBy(a, n \div 14, 2^(n % 14))

RECURSIVE Bits(_)
Bits(k) == IF k = 0 THEN 0 ELSE 1 + Bits(k \div 2)

BitLen(a) == IF a = <<>> THEN 0 ELSE 14 * (Len(a) - 1) + Bits(a[Len(a)])

\* the largest q <= guess with q * b <= r
RECURSIVE Fit(_, _, _)
Fit(r, b, guess) ==
    IF BigLt(r, BigScale(b, guess)) THEN Fit(r, b, guess - 1) ELSE guess

\* the first guess at a digit of the quotient, from the two leading digits
\* of the remainder and the leading digit of the divisor
Guess(r, b) ==
    IF (digit(r, Len(b) + 1) * Limb + digit(r, Len(b))) \div b[Len(b)] < Limb
    THEN (digit(r, Len(b) + 1) * Limb + digit(r, Len(b))) \div b[Len(b)]
    ELSE Limb - 1

\* Long division of r * Limb^n by b, for r < b and a b whose last digit is at
\* least Limb / 2: the n digits of the quotient, and the remainder.
RECURSIVE LongDiv(_, _, _)
WithDigit(rest, q) == [q |-> Append(rest.q, q), r |-> rest.r]
LongDivBy(r, b, n, q) == WithDigit(LongDiv(BigSub(r, BigScale(b, q)), b, n - 1), q)
LongDiv(r, b, n) ==
    IF n = 0 THEN [q |-> <<>>, r |-> r]
    ELSE LongDivBy(Shifted(r), b, n, Fit(Shifted(r), b, Guess(Shifted(r), b)))

\* A float is 0 or sign * m * 2^e with 2^52 <= m < 2^53.
Zero == [sign |-> 0, m |-> <<>>, e |-> 0]

\* the mantissa m after rounding, which may have carried into a 54th bit
Carried(sign, m, e) ==
    IF BitLen(m) > 53 THEN [sign |-> sign, m |-> BigShr(m, 1), e |-> e + 1]
    ELSE [sign |-> sign, m |-> m, e |-> e]

\* kept: the leading 53 bits of n; rest: the drop bits cut off; half: half a
\* unit of the last bit kept
RoundedUp(kept, rest, half, inexact) ==
    \/ BigLt(half, rest)
    \/ rest = half /\ (inexact \/ kept[1] % 2 = 1)

RoundedTo(sign, n, e, inexact, drop, kept) ==
    Carried(sign,
            IF RoundedUp(kept, BigSub(n, BigShl(kept, drop)),
                         BigShl(<<1>>, drop - 1), inexact)
            THEN BigAdd(kept, <<1>>) ELSE kept,
            e + drop)

RoundedBy(sign, n, e, inexact, drop) ==
    IF drop <= 0 THEN [sign |-> sign, m |-> BigShl(n, -drop), e |-> e + drop]
    ELSE RoundedTo(sign, n, e, inexact, drop, BigShr(n, drop))

\* The float nearest to sign * n * 2^e, and to a value slightly above it when
\* inexact says that n was cut off.
Rounded(sign, n, e, inexact) ==
    IF n = <<>> THEN Zero ELSE RoundedBy(sign, n, e, inexact, BitLen(n) - 53)

\* float(k) for an integer k
Float(k) == Rounded(IF k < 0 THEN -1 ELSE 1, Big(IF k < 0 THEN -k ELSE k), 0, FALSE)

FNeg(a) == [a EXCEPT !.sign = -a.sign]

\* |a| < |b| for two floats that are not 0
Smaller(a, b) == IF a.e # b.e THEN a.e < b.e ELSE BigLt(a.m, b.m)

FLt(a, b) ==
    IF a.sign # b.sign THEN a.sign < b.sign
    ELSE IF a.sign = 0 THEN FALSE
    ELSE IF a.sign = 1 THEN Smaller(a, b)
    ELSE Smaller(b, a)

FLe(a, b) == ~FLt(b, a)

\* hm: the mantissa of hi at the exponent of lo
AddAligned(hi, lo, hm) ==
    Rounded(IF hi.sign # lo.sign /\ BigLt(hm, lo.m) THEN lo.sign ELSE hi.sign,
            IF hi.sign = lo.sign THEN BigAdd(hm, lo.m)
            ELSE IF BigLt(hm, lo.m) THEN BigSub(lo.m, hm)
            ELSE BigSub(hm, lo.m),
            lo.e, FALSE)

\* hi + lo for hi with the larger exponent
AddOrdered(hi, lo) ==
    IF hi.e - lo.e > 64 THEN hi
    ELSE AddAligned(hi, lo, BigShl(hi.m, hi.e - lo.e))

FAdd(a, b) ==
    IF a.sign = 0 THEN b
    ELSE IF b.sign = 0 THEN a
    ELSE IF a.e >= b.e THEN AddOrdered(a, b)
    ELSE AddOrdered(b, a)

FSub(a, b) == FAdd(a, FNeg(b))

FMul(a, b) == Rounded(a.sign * b.sign, BigMul(a.m, b.m), a.e + b.e, FALSE)

\* the quotient's leading bit first and its 56 further bits d.q
Quotient(sign, e, first, d) ==
    Rounded(sign, Trim(Append(d.q, first)), e, d.r # <<>>)

\* x / y for mantissas x and y scaled so that long division applies
DivScaled(sign, e, x, y) ==
    Quotient(sign, e, IF BigLt(x, y) THEN 0 ELSE 1,
             LongDiv(IF BigLt(x, y) THEN x ELSE BigSub(x, y), y, 4))

FDiv(a, b) ==
    IF a.sign = 0 THEN Zero
    ELSE DivScaled(a.sign * b.sign, a.e - b.e - 56, BigScale(a.m, 8), BigScale(b.m, 8))

\* Python's min(a, b) and max(a, b): the first argument unless the second is
\* smaller, or larger
FMin(a, b) == IF FLt(b, a) THEN b ELSE a
FMax(a, b) == IF FLt(a, b) THEN b ELSE a

\* float(r) for a rational r; a decimal literal such as 0.55 is float(55/100)
float_of(r) == IF r.d = 1 THEN Float(r.n) ELSE FDiv(Float(r.n), Float(r.d))

\* The one element of a set of one element.  {e(x) : x \in {v}} gives e of
\* the value of v, with v computed once.
Only(S) == CHOOSE x \in S : TRUE

\* Python arithmetic and comparison on numbers of either kind, int (a
\* rational with denominator 1) or float: an operation with a float operand
\* is a float operation, the other operand converted
IsFloat(x) == "m" \in DOMAIN x
AsFloat(x) == IF IsFloat(x) THEN x ELSE float_of(x)
IsNone(x) == ~IsFloat(x) /\ x.d = 0

RAdd(a, b) ==
    Only({IF IsFloat(x) \/ IsFloat(y)
          THEN Only({FAdd(u, v) : u \in {AsFloat(x)}, v \in {AsFloat(y)}})
          ELSE QAdd(x, y) : x \in {a}, y \in {b}})
RMul(a, b) ==
    Only({IF IsFloat(x) \/ IsFloat(y)
          THEN Only({FMul(u, v) : u \in {AsFloat(x)}, v \in {AsFloat(y)}})
          ELSE QMul(x, y) : x \in {a}, y \in {b}})
\* a / b is Python's true division: a float whatever the operands
RDiv(a, b) == Only({FDiv(u, v) : u \in {AsFloat(a)}, v \in {AsFloat(b)}})
RLt(a, b) ==
    \E x \in {a}, y \in {b} :
        IF IsFloat(x) \/ IsFloat(y)
        THEN \E u \in {AsFloat(x)}, v \in {AsFloat(y)} : FLt(u, v)
        ELSE QLt(x, y)
RLe(a, b) ==
    \E x \in {a}, y \in {b} :
        IF IsFloat(x) \/ IsFloat(y)
        THEN \E u \in {AsFloat(x)}, v \in {AsFloat(y)} : FLe(u, v)
        ELSE QLe(x, y)
\* a != b is false of an int and the float of the same value
PyEq(a, b) == \E x \in {a}, y \in {b} : ~RLt(x, y) /\ ~RLt(y, x)
\* Python min(a, b) / max(a, b): the first argument wins a tie
PyMin(a, b) == Only({IF RLt(y, x) THEN y ELSE x : x \in {a}, y \in {b}})
PyMax(a, b) == Only({IF RLt(x, y) THEN y ELSE x : x \in {a}, y \in {b}})

\* sum(s): from 0, left to right
RECURSIVE RSum(_)
RSum(s) ==
    IF s = <<>> THEN Num(0)
    ELSE RAdd(RSum(SubSeq(s, 1, Len(s) - 1)), s[Len(s)])

-----------------------------------------------------------------------------
(* RiskManagementModule *)

\* A decision dict.  note is the kind of risk_management_note ("none" when
\* the key is absent); has_original tells whether original_bet_size is set.
Decision(g, t, ev, size, sb) ==
    [game_id |-> g, team |-> t, expected_value |-> ev, bet_size |-> size,
     should_bet |-> sb, note |-> "none", has_original |-> FALSE,
     original_bet_size |-> None]

\* variant of _check_daily_bet_limit that compares with <= (one bet too many)
check_daily_bet_limit_off_by_one(ledger) == ledger.bets_today <= daily_bet_limit

\* _check_daily_bet_limit: len(bets_today) < daily_bet_limit
check_daily_bet_limit(ledger) == ledger.bets_today < daily_bet_limit

\* total of the amounts of today's results that were not won
RECURSIVE total_loss(_)
total_loss(results) ==
    IF results = <<>> THEN 0
    ELSE (IF Head(results).won THEN 0 ELSE Head(results).amount)
         + total_loss(Tail(results))

\* variant of _check_daily_loss_limit that compares with <=
check_daily_loss_limit_off_by_one(ledger) ==
    total_loss(ledger.bet_results) <= daily_loss_limit

\* _check_daily_loss_limit: total_loss < daily_loss_limit
check_daily_loss_limit(ledger) == total_loss(ledger.bet_results) < daily_loss_limit

\* variant of validate_betting_decision that rejects a decision whose bet
\* size is outside [min_bet, max_bet] instead of adjusting it
validate_betting_decision_rejects_out_of_range(heap, id, ledger) ==
    LET decision == heap[id]
        vid == Len(heap) + 1
        ret(v, tr) == [heap |-> Append(heap, v), id |-> vid, trace |-> tr, raised |-> FALSE]
        raise(tr) == [heap |-> Append(heap, decision), id |-> vid, trace |-> tr,
                      raised |-> TRUE]
        v1 == [decision EXCEPT !.has_original = TRUE,
                               !.original_bet_size = decision.bet_size]
        ev == decision.expected_value
        original == decision.bet_size
        adjusted == PyMax(Num(min_bet), PyMin(original, Num(max_bet)))
    IN  IF ~decision.should_bet THEN ret(decision, <<>>)
        ELSE IF IsNone(ev) THEN raise(<<"ev">>)
        ELSE IF RLt(ev, Num(min_ev_threshold))
             THEN ret([v1 EXCEPT !.should_bet = FALSE, !.note = "ev_below_threshold"], <<"ev">>)
        ELSE IF IsNone(original) THEN raise(<<"ev", "size">>)
        ELSE IF ~PyEq(adjusted, original)
             THEN ret([v1 EXCEPT !.should_bet = FALSE, !.note = "bet_size_adjusted"],
                      <<"ev", "size">>)
        ELSE IF ~check_daily_bet_limit(ledger)
             THEN ret([v1 EXCEPT !.should_bet = FALSE, !.note = "daily_bet_limit"],
                      <<"ev", "size", "bet_limit">>)
        ELSE IF ~check_daily_loss_limit(ledger)
             THEN ret([v1 EXCEPT !.should_bet = FALSE, !.note = "daily_loss_limit"],
                      <<"ev", "size", "bet_limit", "loss_limit">>)
        ELSE ret(v1, <<"ev", "size", "bet_limit", "loss_limit">>)

\* variant of validate_betting_decision that validates a decision whatever its
\* should_bet flag and adjusts the bet size before it looks at the edge
validate_betting_decision_revalidates(heap, id, ledger) ==
    LET decision == heap[id]
        vid == Len(heap) + 1
        ret(v, tr) == [heap |-> Append(heap, v), id |-> vid, trace |-> tr, raised |-> FALSE]
        raise(tr) == [heap |-> Append(heap, decision), id |-> vid, trace |-> tr,
                      raised |-> TRUE]
        v1 == [decision EXCEPT !.has_original = TRUE,
                               !.original_bet_size = decision.bet_size]
        ev == decision.expected_value
        original == decision.bet_size
        adjusted == PyMax(Num(min_bet), PyMin(original, Num(max_bet)))
        v2 == IF ~PyEq(adjusted, original)
              THEN [v1 EXCEPT !.bet_size = adjusted, !.note = "bet_size_adjusted"]
              ELSE v1
    IN  IF IsNone(original) THEN raise(<<"size">>)
        ELSE IF IsNone(ev) THEN raise(<<"size", "ev">>)
        ELSE IF RLt(ev, Num(min_ev_threshold))
             THEN ret([v2 EXCEPT !.should_bet = FALSE, !.note = "ev_below_threshold"],
                      <<"size", "ev">>)
        ELSE IF ~check_daily_bet_limit(ledger)
             THEN ret([v2 EXCEPT !.should_bet = FALSE, !.note = "daily_bet_limit"],
                      <<"size", "ev", "bet_limit">>)
        ELSE IF ~check_daily_loss_limit(ledger)
             THEN ret([v2 EXCEPT !.should_bet = FALSE, !.note = "daily_loss_limit"],
                      <<"size", "ev", "bet_limit", "loss_limit">>)
        ELSE ret([v2 EXCEPT !.should_bet = TRUE], <<"size", "ev", "bet_limit", "loss_limit">>)

\* variant of validate_betting_decision that works on the dict it was given
\* instead of a copy of it
validate_betting_decision_in_place(heap, id, ledger) ==
    LET decision == heap[id]
        ret(v, tr) == [heap |-> [heap EXCEPT ![id] = v], id |-> id, trace |-> tr,
                       raised |-> FALSE]
        raise(tr) == [heap |-> heap, id |-> id, trace |-> tr, raised |-> TRUE]
        v1 == [decision EXCEPT !.has_original = TRUE,
                               !.original_bet_size = decision.bet_size]
        ev == decision.expected_value
        original == decision.bet_size
        adjusted == PyMax(Num(min_bet), PyMin(original, Num(max_bet)))
        v2 == IF ~PyEq(adjusted, original)
              THEN [v1 EXCEPT !.bet_size = adjusted, !.note = "bet_size_adjusted"]
              ELSE v1
    IN  IF ~decision.should_bet THEN ret(decision, <<>>)
        ELSE IF IsNone(ev) THEN raise(<<"ev">>)
        ELSE IF RLt(ev, Num(min_ev_threshold))
             THEN ret([v1 EXCEPT !.should_bet = FALSE, !.note = "ev_below_threshold"], <<"ev">>)
        ELSE IF IsNone(original) THEN raise(<<"ev", "size">>)
        ELSE IF ~check_daily_bet_limit(ledger)
             THEN ret([v2 EXCEPT !.should_bet = FALSE, !.note = "daily_bet_limit"],
                      <<"ev", "size", "bet_limit">>)
        ELSE IF ~check_daily_loss_limit(ledger)
             THEN ret([v2 EXCEPT !.should_bet = FALSE, !.note = "daily_loss_limit"],
                      <<"ev", "size", "bet_limit", "loss_limit">>)
        ELSE ret(v2, <<"ev", "size", "bet_limit", "loss_limit">>)

\* variant of validate_betting_decision that consults the daily limits
\* before the edge threshold
validate_betting_decision_limits_first(heap, id, ledger) ==
    LET decision == heap[id]
        vid == Len(heap) + 1
        ret(v, tr) == [heap |-> Append(heap, v), id |-> vid, trace |-> tr, raised |-> FALSE]
        raise(tr) == [heap |-> Append(heap, decision), id |-> vid, trace |-> tr,
                      raised |-> TRUE]
        v1 == [decision EXCEPT !.has_original = TRUE,
                               !.original_bet_size = decision.bet_size]
        ev == decision.expected_value
        original == decision.bet_size
        adjusted == PyMax(Num(min_bet), PyMin(original, Num(max_bet)))
        v2 == IF ~PyEq(adjusted, original)
              THEN [v1 EXCEPT !.bet_size = adjusted, !.note = "bet_size_adjusted"]
              ELSE v1
    IN  IF ~decision.should_bet THEN ret(decision, <<>>)
        ELSE IF IsNone(original) THEN raise(<<"size">>)
        ELSE IF ~check_daily_bet_limit(ledger)
             THEN ret([v2 EXCEPT !.should_bet = FALSE, !.note = "daily_bet_limit"],
                      <<"size", "bet_limit">>)
        ELSE IF ~check_daily_loss_limit(ledger)
             THEN ret([v2 EXCEPT !.should_bet = FALSE, !.note = "daily_loss_limit"],
                      <<"size", "bet_limit", "loss_limit">>)
        ELSE IF IsNone(ev) THEN raise(<<"size", "bet_limit", "loss_limit", "ev">>)
        ELSE IF RLt(ev, Num(min_ev_threshold))
             THEN ret([v2 EXCEPT !.should_bet = FALSE, !.note = "ev_below_threshold"],
                      <<"size", "bet_limit", "loss_limit", "ev">>)
        ELSE ret(v2, <<"size", "bet_limit", "loss_limit", "ev">>)

\* validate_betting_decision on the object at address id.  Returns the heap
\* with the copy appended, the copy's address, the checks that ran, and
\* whether a TypeError was raised (comparison with None).
validate_betting_decision(heap, id, ledger) ==
    LET decision == heap[id]
        vid == Len(heap) + 1
        copy == decision                       \* validated_decision = decision.copy()
        ret(v, tr) == [heap |-> Append(heap, v), id |-> vid, trace |-> tr, raised |-> FALSE]
        raise(tr) == [heap |-> Append(heap, copy), id |-> vid, trace |-> tr, raised |-> TRUE]
        v1 == [copy EXCEPT !.has_original = TRUE, !.original_bet_size = decision.bet_size]
        ev == decision.expected_value
        original == decision.bet_size
        adjusted == PyMax(Num(min_bet), PyMin(original, Num(max_bet)))
        v2 == IF ~PyEq(adjusted, original)
              THEN [v1 EXCEPT !.bet_size = adjusted, !.note = "bet_size_adjusted"]
              ELSE v1
    IN  IF ~decision.should_bet THEN ret(copy, <<>>)
        ELSE IF IsNone(ev) THEN raise(<<"ev">>)
        ELSE IF RLt(ev, Num(min_ev_threshold))
             THEN ret([v1 EXCEPT !.should_bet = FALSE, !.note = "ev_below_threshold"], <<"ev">>)
        ELSE IF IsNone(original) THEN raise(<<"ev", "size">>)
        ELSE IF ~check_daily_bet_limit(ledger)
             THEN ret([v2 EXCEPT !.should_bet = FALSE, !.note = "daily_bet_limit"],
                      <<"ev", "size", "bet_limit">>)
        ELSE IF ~check_daily_loss_limit(ledger)
             THEN ret([v2 EXCEPT !.should_bet = FALSE, !.note = "daily_loss_limit"],
                      <<"ev", "size", "bet_limit", "loss_limit">>)
        ELSE ret(v2, <<"ev", "size", "bet_limit", "loss_limit">>)

\* First pass of validate_betting_decisions: the loop over the input list.
RECURSIVE first_pass(_, _, _, _, _)
first_pass(heap, ids, ledger, out, traces) ==
    IF ids = <<>> THEN [heap |-> heap, out |-> out, traces |-> traces, raised |-> FALSE]
    ELSE Only({IF r.raised
               THEN [heap |-> r.heap, out |-> out, traces |-> Append(traces, r.trace),
                     raised |-> TRUE]
               ELSE first_pass(r.heap, Tail(ids), ledger, Append(out, r.id),
                               Append(traces, r.trace)) :
               r \in {validate_betting_decision(heap, Head(ids), ledger)}})

\* the addresses of a list whose object has should_bet set, in list order
RECURSIVE active_of(_, _)
active_of(heap, ids) ==
    IF ids = <<>> THEN <<>>
    ELSE IF heap[Head(ids)].should_bet
         THEN <<Head(ids)>> \o active_of(heap, Tail(ids))
         ELSE active_of(heap, Tail(ids))

RECURSIVE sizes_of(_, _)
sizes_of(heap, ids) ==
    IF ids = <<>> THEN <<>>
    ELSE <<heap[Head(ids)].bet_size>> \o sizes_of(heap, Tail(ids))

\* the scaling loop: every active object is rewritten in place
RECURSIVE scale_all(_, _, _)
scale_all(heap, ids, factor) ==
    IF ids = <<>> THEN heap
    ELSE scale_all([heap EXCEPT ![Head(ids)].bet_size = RMul(@, factor),
                                ![Head(ids)].note = "portfolio_scaled"],
                   Tail(ids), factor)

\* the first active address with the same game_id and team as the object at i
RECURSIVE first_match(_, _, _)
first_match(heap, active, i) ==
    IF active = <<>> THEN i
    ELSE IF heap[Head(active)].game_id = heap[i].game_id
            /\ heap[Head(active)].team = heap[i].team
         THEN Head(active)
         ELSE first_match(heap, Tail(active), i)

\* the literal 0.1 of max_daily_bet_amount = self.bankroll * 0.1
portfolio_fraction == float_of(Rat(1, 10))

\* _apply_portfolio_constraints on the list ids: returns the heap and the list
apply_portfolio_constraints(heap, ids, self_bankroll) ==
    Only({IF active = <<>> THEN [heap |-> heap, out |-> ids]
          ELSE Only({[heap |-> heap2,
                      out |-> [i \in 1..Len(ids) |->
                                  IF heap2[ids[i]].should_bet
                                  THEN first_match(heap2, active, ids[i])
                                  ELSE ids[i]]] :
                     heap2 \in {Only({IF RLt(max_daily_bet_amount, total_bet_amount)
                                      THEN scale_all(heap, active,
                                                     RDiv(max_daily_bet_amount,
                                                          total_bet_amount))
                                      ELSE heap :
                                      total_bet_amount \in {RSum(sizes_of(heap, active))},
                                      max_daily_bet_amount \in
                                          {RMul(self_bankroll, portfolio_fraction)}})}}) :
          active \in {active_of(heap, ids)}})

\* validate_betting_decisions
\* p is what the loop left, c what _apply_portfolio_constraints returned
validate_betting_decisions(heap, ids, ledger, self_bankroll) ==
    Only({IF p.raised
          THEN [heap |-> p.heap, out |-> <<>>, first |-> <<>>, traces |-> p.traces,
                raised |-> TRUE]
          ELSE Only({[heap |-> c.heap, out |-> c.out,
                      first |-> [i \in 1..Len(p.out) |-> p.heap[p.out[i]]],
                      traces |-> p.traces, raised |-> FALSE] :
                     c \in {apply_portfolio_constraints(p.heap, p.out, self_bankroll)}}) :
          p \in {first_pass(heap, ids, ledger, <<>>, <<>>)}})

-----------------------------------------------------------------------------
(* ReasoningModule *)

RSub(a, b) == RAdd(a, RMul(Num(-1), b))

\* DEFAULT_CONFIG["betting"]["max_kelly_fraction"]: the float 0.25
max_kelly_fraction == float_of(Rat(1, 4))

\* odds_data of a research record: present is FALSE for None / {} ; a
\* moneyline of 0 stands for a missing (None) quote.
NoOdds == [present |-> FALSE, dk_home |-> 0, dk_away |-> 0,
           true_home |-> 0, true_away |-> 0]

\* the float literals of update_beliefs and compare_to_market_odds
placeholder_home_strength == float_of(Rat(55, 100))
placeholder_away_strength == float_of(Rat(45, 100))
placeholder_home_implied == float_of(Rat(52, 100))
placeholder_away_implied == float_of(Rat(48, 100))
missing_quote_implied == float_of(Rat(1, 2))

\* the float values of the configuration the module reads
kelly_cap == max_kelly_fraction
edge_threshold == Float(min_ev_threshold)
smallest_stake == Float(min_bet)
largest_stake == Float(max_bet)

\* metadata.get("game_id", "unknown"): "None" marks a record without the key
update_beliefs(game_research) ==
    [game_id |-> IF game_research.game_id = "None" THEN "unknown"
                 ELSE game_research.game_id,
     home_team_strength |-> placeholder_home_strength,
     away_team_strength |-> placeholder_away_strength]

calculate_probabilities(updated_beliefs) ==
    LET total == FAdd(updated_beliefs.home_team_strength,
                      updated_beliefs.away_team_strength)
    IN  [game_id |-> updated_beliefs.game_id,
         home_win_probability |-> FDiv(updated_beliefs.home_team_strength, total),
         away_win_probability |-> FDiv(updated_beliefs.away_team_strength, total)]

odds_to_probability(odds) ==
    IF odds = 0 THEN missing_quote_implied
    ELSE IF odds > 0 THEN FDiv(Float(100), Float(odds + 100))
    ELSE FDiv(Float(Abs(odds)), Float(Abs(odds) + 100))

\* market_odds holds the implied probabilities the Kelly step reads: the
\* placeholder pair without odds data, the DraftKings pair with it.
compare_to_market_odds(probabilities, game_id, odds_data) ==
    LET home_prob == probabilities.home_win_probability
        away_prob == probabilities.away_win_probability
        dk_home_implied == odds_to_probability(odds_data.dk_home)
        dk_away_implied == odds_to_probability(odds_data.dk_away)
        true_home_implied == odds_to_probability(odds_data.true_home)
        true_away_implied == odds_to_probability(odds_data.true_away)
    IN  IF ~odds_data.present
        THEN [game_id |-> game_id,
              home_implied_probability |-> placeholder_home_implied,
              away_implied_probability |-> placeholder_away_implied,
              home_edge |-> FSub(home_prob, placeholder_home_implied),
              away_edge |-> FSub(away_prob, placeholder_away_implied)]
        ELSE [game_id |-> game_id,
              home_implied_probability |-> dk_home_implied,
              away_implied_probability |-> dk_away_implied,
              home_edge |-> FMax(FSub(home_prob, dk_home_implied),
                                 FSub(home_prob, true_home_implied)),
              away_edge |-> FMax(FSub(away_prob, dk_away_implied),
                                 FSub(away_prob, true_away_implied))]

kelly(edge, implied_prob) ==
    IF FLt(Zero, implied_prob)
    THEN FMax(Zero, FDiv(edge, FSub(FDiv(Float(1), implied_prob), Float(1))))
    ELSE Zero

calculate_expected_value(market_comparison) ==
    [game_id |-> market_comparison.game_id,
     home_expected_value |-> FMul(market_comparison.home_edge, Float(100)),
     away_expected_value |-> FMul(market_comparison.away_edge, Float(100)),
     home_kelly |-> kelly(market_comparison.home_edge,
                          market_comparison.home_implied_probability),
     away_kelly |-> kelly(market_comparison.away_edge,
                          market_comparison.away_implied_probability)]

\* config_bankroll is config["betting"]["bankroll"], the dict entry that
\* update_bankroll keeps equal to the risk module's bankroll
sized(kelly_fraction, config_bankroll) ==
    FMax(smallest_stake,
         FMin(FMul(FMin(kelly_fraction, kelly_cap), float_of(config_bankroll)),
              largest_stake))

make_betting_decision(ev_calculation, config_bankroll) ==
    LET home_ev == ev_calculation.home_expected_value
        away_ev == ev_calculation.away_expected_value
    IN  IF FLt(away_ev, home_ev) /\ FLt(edge_threshold, home_ev)
        THEN [game_id |-> ev_calculation.game_id, should_bet |-> TRUE,
              team |-> "home", expected_value |-> home_ev,
              bet_size |-> sized(ev_calculation.home_kelly, config_bankroll),
              reasoning |-> "exceeds_threshold"]
        ELSE IF FLt(home_ev, away_ev) /\ FLt(edge_threshold, away_ev)
        THEN [game_id |-> ev_calculation.game_id, should_bet |-> TRUE,
              team |-> "away", expected_value |-> away_ev,
              bet_size |-> sized(ev_calculation.away_kelly, config_bankroll),
              reasoning |-> "exceeds_threshold"]
        ELSE [game_id |-> ev_calculation.game_id, should_bet |-> FALSE,
              team |-> "None", expected_value |-> FMax(home_ev, away_ev),
              bet_size |-> Zero,
              reasoning |-> "below_threshold"]

\* the first four reasoning steps applied to one research record
expected_value_of(game_research) ==
    calculate_expected_value(
        compare_to_market_odds(
            calculate_probabilities(update_beliefs(game_research)),
            game_research.game_id, game_research.odds_data))

\* Without odds data the numbers of the four steps do not depend on the
\* record; they are computed once.
expected_value_without_odds ==
    expected_value_of([game_id |-> "None", odds_data |-> NoOdds])

\* the five reasoning steps applied to one research record
reason_about(game_research, config_bankroll) ==
    make_betting_decision(
        IF game_research.odds_data = NoOdds
        THEN [expected_value_without_odds EXCEPT !.game_id = game_research.game_id]
        ELSE expected_value_of(game_research),
        config_bankroll)

-----------------------------------------------------------------------------
(* ExecutionModule *)

\* what a call that raises TypeError leaves in place of its value
TypeError == [raised |-> TRUE]
Raised(v) == "raised" \in DOMAIN v

\* _calculate_bet_size: fractional Kelly stake from an edge in percent;
\* expected_value / 100 raises TypeError when expected_value is None
calculate_bet_size(expected_value, config_bankroll) ==
    IF IsNone(expected_value) THEN TypeError
    ELSE PyMax(Num(min_bet),
               PyMin(RMul(RMul(RDiv(expected_value, Num(100)), max_kelly_fraction),
                          config_bankroll),
                     Num(max_bet)))

\* variant of execute_betting_actions that acts on every entry it is given,
\* whether or not it has a "metadata" dict
execute_betting_actions_any_entry(betting_decisions, config_bankroll) ==
    LET details == [i \in 1..Len(betting_decisions) |->
                       [game_id |-> betting_decisions[i].game_id,
                        team |-> betting_decisions[i].team,
                        amount |-> calculate_bet_size(betting_decisions[i].expected_value,
                                                      config_bankroll)]]
    IN  [bets_placed |-> Len(details),
         total_amount |-> RSum([i \in 1..Len(details) |-> details[i].amount]),
         bet_details |-> details,
         raised |-> FALSE]

\* execute_betting_actions in test mode.  An entry is acted on only when its
\* "metadata" dict says decision = "bet"; meta_decision is "None" for an
\* entry that has no "metadata" key.  The loop ends at the first entry acted
\* on for which _calculate_bet_size raises: the exception leaves the
\* function (raised), after the bets for the entries before it.
execute_betting_actions(betting_decisions, config_bankroll) ==
    LET acted == SelectSeq(betting_decisions, LAMBDA d : d.meta_decision = "bet")
        raising == SelectSeq([i \in 1..Len(acted) |-> i],
                             LAMBDA i : IsNone(acted[i].expected_value))
        done == IF raising = <<>> THEN Len(acted) ELSE raising[1] - 1
        details == [i \in 1..done |->
                       [game_id |-> acted[i].game_id, team |-> acted[i].team,
                        amount |-> calculate_bet_size(acted[i].expected_value, config_bankroll)]]
    IN  [bets_placed |-> Len(details),
         total_amount |-> RSum([i \in 1..Len(details) |-> details[i].amount]),
         bet_details |-> details,
         raised |-> raising # <<>>]

-----------------------------------------------------------------------------
(* The memory collaborator *)

\* A stored record: the metadata keys the handlers read.  "None" / None
\* stand for an absent key; tick is the loop iteration that added it.
MemRec(type) ==
    [type |-> type, game_id |-> "None", team |-> "None", decision |-> "None",
     expected_value |-> None, bet_size |-> None, should_bet |-> FALSE,
     original_bet_size |-> None, adjusted_bet_size |-> None, amount |-> None,
     status |-> "None", outcome |-> "None", tick |-> ticks]

RECURSIVE SeqOfSet(_)
SeqOfSet(T) ==
    IF T = {} THEN <<>>
    ELSE LET m == CHOOSE x \in T : \A y \in T : x <= y
         IN  <<m>> \o SeqOfSet(T \ {m})

\* memory.search: some of the stored records that satisfy the metadata
\* filter, at most limit of them, in the order they were added.  A result
\* is a sequence of positions in memory.
\* matches is the set of positions whose record satisfies the filter.
search(matches, limit) ==
    {SeqOfSet(T) : T \in {U \in SUBSET matches : Cardinality(U) <= limit}}

\* Today's bet_placed / bet_result records as the risk module reads them.
\* No module of the program adds records of these types, so what the store
\* holds of them comes from outside the program.
CtlLedgers ==
    {[bets_today |-> 0, bet_results |-> <<>>],
     [bets_today |-> daily_bet_limit, bet_results |-> <<>>]}

\* A handler adds the records of W one by one; every add may raise.
\* Outcome -1: nothing raises.  Outcome p >= 0: the first p adds are done
\* and the next call to the memory raises.
Outcomes(W) == {-1} \cup (0..(IF Len(W) = 0 THEN 0 ELSE Len(W) - 1))
Written(W, p) == IF p = -1 THEN W ELSE SubSeq(W, 1, p)

-----------------------------------------------------------------------------
(* SpecRisk: validate_betting_decisions on bounded inputs *)

NoTime == -1

\* what execute_betting_actions has done so far in a call: the keys of
\* execution_results, and for each input entry (by its index) whether it was
\* submitted to the venue, counted as placed, and recorded in memory; settled
\* is the set of entries monitor_outcomes stored a "settled" record for,
\* settlements the "settled" records themselves in the order stored, and
\* monitor_calls the number of monitor_outcomes calls so far
NothingDone ==
    [bets_placed |-> 0, total_amount |-> Num(0), bet_details |-> <<>>,
     submitted |-> <<>>, counted |-> <<>>, recorded |-> <<>>, settled |-> {},
     settlements |-> <<>>, monitor_calls |-> 0, raised |-> FALSE]

\* main()'s arguments when no mode flag is given and neither variable is set
NoFlags ==
    [test |-> FALSE, sim |-> FALSE, live |-> FALSE,
     env_test_mode |-> "unset", env_api_key |-> FALSE]

\* the execution and reasoning modules' call records are used by SpecExec
\* and SpecDecide only
ExecUnused ==
    /\ xpc = "unused"
    /\ xDecisions = <<>>
    /\ xArgs = NoFlags
    /\ xTestMode = TRUE
    /\ xVenue = <<>>
    /\ xAddRaises = -1
    /\ xResult = NothingDone

DecideUnused ==
    /\ dpc = "unused"
    /\ dInput = <<>>
    /\ dOutput = <<>>

ReasonUnused ==
    /\ qpc = "unused"
    /\ qInput = <<>>
    /\ qOutput = <<>>

SleepUnused ==
    /\ slpc = "unused"
    /\ sElapsed = 0
    /\ sSleep = 0

CacheUnused ==
    /\ mpc = "unused"
    /\ mServer = 0
    /\ mCache = <<>>
    /\ mNow = 0
    /\ mSeen = <<>>

\* the loop is not inside _handle_research_state; else games is the number
\* of the game of the tick whose injury reports are being fetched and
\* parsed the number of pages of that fetch that have parsed
NotFetching == [games |-> 0, parsed |-> 0]

\* the controller as constructed, not started, but for the store
CtlFresh ==
    /\ state = "INITIALIZING"
    /\ is_running = FALSE
    /\ loop = "not_started"
    /\ ticks = 0
    /\ fetching = NotFetching
    /\ last_research_time = NoTime
    /\ now = 0
    /\ bankroll = Num(initial_bankroll)
    /\ raised_in = "None"
    /\ executed = <<>>
    /\ placed = <<>>
    /\ fetch_failed = FALSE
    /\ validated = {}

\* the controller as constructed, not started: __init__ stores the persona
\* record, sets the state and is_running
CtlIdle ==
    /\ CtlFresh
    /\ memory = <<MemRec("persona_config")>>

RiskKeys == {<<"g1", "home">>, <<"g1", "away">>}
RiskEdges == {Num(1), Num(3)}
RiskSizes == {Num(5), Num(60), Num(200)}

DecisionInputs ==
    {Decision(k[1], k[2], ev, sz, TRUE) : k \in RiskKeys, ev \in RiskEdges, sz \in RiskSizes}
    \cup {Decision("g1", "home", Num(1), Num(0), FALSE)}

RiskBatches == UNION {[1..n -> DecisionInputs] : n \in 0..MaxBatch}

RiskLedgers ==
    {[bets_today |-> b, bet_results |-> r] :
        b \in {0, daily_bet_limit - 1, daily_bet_limit, daily_bet_limit + 1},
        r \in {<<>>,
               <<[won |-> FALSE, amount |-> daily_loss_limit - 1]>>,
               <<[won |-> TRUE, amount |-> 500], [won |-> FALSE, amount |-> 60],
                 [won |-> FALSE, amount |-> 40]>>}}

InitRisk ==
    /\ rpc = "ready"
    /\ rHeap \in RiskBatches
    /\ rHeap0 = rHeap
    /\ rInput = [i \in 1..Len(rHeap) |-> i]
    /\ rOutput = <<>>
    /\ rFirstPass = <<>>
    /\ rTrace = <<>>
    /\ rBankroll = initial_bankroll
    /\ rBankroll0 = rBankroll
    /\ rLedger \in RiskLedgers
    /\ rReads = <<>>
    /\ rPrev = <<>>
    /\ CtlIdle
    /\ ExecUnused
    /\ DecideUnused
    /\ ReasonUnused
    /\ SleepUnused
    /\ CacheUnused

ValidateCall ==
    /\ rpc = "ready"
    /\ \E r \in {validate_betting_decisions(rHeap, rInput, rLedger, Num(rBankroll))} :
           /\ rpc' = IF r.raised THEN "raised" ELSE "done"
           /\ rHeap' = r.heap
           /\ rOutput' = r.out
           /\ rFirstPass' = r.first
           /\ rTrace' = r.traces
    /\ UNCHANGED <<rHeap0, rInput, rBankroll, rBankroll0, rLedger, rReads, rPrev>>
    /\ UNCHANGED ctlVars
    /\ UNCHANGED callVars

NextRisk == ValidateCall

SpecRisk == InitRisk /\ [][NextRisk]_vars

-----------------------------------------------------------------------------
(* Properties of validate_betting_decisions (SpecRisk) *)

RiskDone == rpc = "done"
InputIdx == 1..Len(rInput)
InputDecision(i) == rHeap0[rInput[i]]
OutputDecision(i) == rHeap[rOutput[i]]
EdgeOk(d) == ~RLt(d.expected_value, Num(min_ev_threshold))
LossToday == total_loss(rLedger.bet_results)

\* C3 as stated: with daily_bet_limit bets recorded today, every decision
\* submitted with should_bet=True is rejected and its note names the daily
\* bet limit, whatever its edge.
C3_AsStated ==
    (RiskDone /\ rLedger.bets_today = daily_bet_limit) =>
        \A i \in InputIdx :
            InputDecision(i).should_bet =>
                /\ ~rFirstPass[i].should_bet
                /\ rFirstPass[i].note = "daily_bet_limit"

\* C3 amended: with daily_bet_limit bets recorded today, every decision
\* submitted with should_bet=True is rejected; the note names the daily bet
\* limit when the edge is at least min_ev_threshold, and names the edge
\* threshold when the edge is below it.
C3_DailyBetLimit ==
    (RiskDone /\ rLedger.bets_today = daily_bet_limit) =>
        \A i \in InputIdx :
            InputDecision(i).should_bet =>
                /\ ~rFirstPass[i].should_bet
                /\ rFirstPass[i].note = IF EdgeOk(InputDecision(i))
                                        THEN "daily_bet_limit"
                                        ELSE "ev_below_threshold"

C3_Witness ==
    /\ RiskDone
    /\ rLedger.bets_today = daily_bet_limit
    /\ \E i \in InputIdx :
          /\ InputDecision(i).should_bet
          /\ EdgeOk(InputDecision(i))
          /\ ~rFirstPass[i].should_bet
          /\ rFirstPass[i].note = "daily_bet_limit"

\* C4: a decision that passed the edge and bet-count checks is rejected with
\* the daily-loss-limit note exactly when the amount lost today has reached
\* daily_loss_limit, and stays approved when the loss is strictly below it.
C4_DailyLossLimit ==
    RiskDone =>
        \A i \in InputIdx :
            (/\ InputDecision(i).should_bet
             /\ EdgeOk(InputDecision(i))
             /\ rLedger.bets_today < daily_bet_limit) =>
                IF LossToday >= daily_loss_limit
                THEN ~rFirstPass[i].should_bet /\ rFirstPass[i].note = "daily_loss_limit"
                ELSE rFirstPass[i].should_bet

C4_Witness ==
    /\ RiskDone
    /\ LossToday = daily_loss_limit
    /\ \E i \in InputIdx :
          /\ InputDecision(i).should_bet
          /\ rFirstPass[i].note = "daily_loss_limit"
          /\ ~rFirstPass[i].should_bet

\* C6: the call leaves every dict of the input list, the bankroll and the
\* ledger as they were, and no dict of the returned list is one of the
\* input dicts.
C6_NoEffectOnInputs ==
    rpc # "ready" =>
        /\ \A a \in 1..Len(rHeap0) : rHeap[a] = rHeap0[a]
        /\ rBankroll = rBankroll0
        /\ \A i \in 1..Len(rOutput) : rOutput[i] \notin {rInput[j] : j \in InputIdx}

C6_Witness ==
    /\ RiskDone
    /\ \E i \in 1..Len(rOutput) :
          /\ InputDecision(i).should_bet
          /\ ~PyEq(OutputDecision(i).bet_size, InputDecision(i).bet_size)
          /\ rHeap[rInput[i]] = InputDecision(i)

\* C7: the checks run in the order edge threshold, bet-size clamp, daily bet
\* count, daily loss limit, and stop at the first failing one: the note of
\* a rejected decision is the note of the earliest failing check and no
\* later check has run.
AllChecks == <<"ev", "size", "bet_limit", "loss_limit">>
C7_CheckOrder ==
    RiskDone =>
        \A i \in InputIdx :
            LET d == InputDecision(i)
                v == rFirstPass[i]
                t == rTrace[i]
            IN  /\ t = SubSeq(AllChecks, 1, Len(t))
                /\ d.should_bet =>
                     IF ~EdgeOk(d)
                     THEN /\ v.note = "ev_below_threshold" /\ ~v.should_bet
                          /\ t = <<"ev">> /\ v.bet_size = d.bet_size
                     ELSE IF rLedger.bets_today >= daily_bet_limit
                     THEN /\ v.note = "daily_bet_limit" /\ ~v.should_bet
                          /\ t = <<"ev", "size", "bet_limit">>
                     ELSE IF LossToday >= daily_loss_limit
                     THEN /\ v.note = "daily_loss_limit" /\ ~v.should_bet
                          /\ t = AllChecks
                     ELSE v.should_bet /\ t = AllChecks

C7_Witness ==
    /\ RiskDone
    /\ rLedger.bets_today >= daily_bet_limit
    /\ LossToday >= daily_loss_limit
    /\ \E i, j \in InputIdx :
          /\ InputDecision(i).should_bet /\ ~EdgeOk(InputDecision(i))
          /\ rFirstPass[i].note = "ev_below_threshold"
          /\ InputDecision(j).should_bet /\ EdgeOk(InputDecision(j))
          /\ rFirstPass[j].note = "daily_bet_limit"

\* C8: when the approved stakes of a batch sum to S above the cap (a tenth
\* of the bankroll), after scaling they sum to the cap, up to the rounding
\* of the float operations, each equals its stake before scaling times
\* cap/S, approved decisions stay approved and rejected ones are untouched;
\* when S is at most the cap no stake changes.
ApprovedIdx == {i \in 1..Len(rFirstPass) : rFirstPass[i].should_bet}
RECURSIVE SumOver(_, _)
SumOver(f, S) ==
    IF S = {} THEN Num(0)
    ELSE LET i == CHOOSE x \in S : TRUE IN RAdd(f[i], SumOver(f, S \ {i}))
PortfolioCap == RMul(Num(rBankroll), portfolio_fraction)
\* equal up to the rounding of a few float operations on stakes
Tolerance == float_of(Rat(1, 1000000))
Close(a, b) == RLe(RSub(a, b), Tolerance) /\ RLe(RSub(b, a), Tolerance)
RequestedTotal == SumOver([i \in 1..Len(rFirstPass) |-> rFirstPass[i].bet_size], ApprovedIdx)
C8_PortfolioScaling ==
    RiskDone =>
        IF RLt(PortfolioCap, RequestedTotal)
        THEN /\ Close(SumOver([i \in 1..Len(rOutput) |-> OutputDecision(i).bet_size],
                              ApprovedIdx),
                      PortfolioCap)
             /\ \A i \in 1..Len(rOutput) :
                   IF i \in ApprovedIdx
                   THEN /\ OutputDecision(i).should_bet
                        /\ PyEq(OutputDecision(i).bet_size,
                                RMul(rFirstPass[i].bet_size,
                                     RDiv(PortfolioCap, RequestedTotal)))
                   ELSE OutputDecision(i) = rFirstPass[i]
        ELSE \A i \in 1..Len(rOutput) :
                 PyEq(OutputDecision(i).bet_size, rFirstPass[i].bet_size)

-----------------------------------------------------------------------------
(* Spec: AgentController.start() and its state handlers *)

\* the risk module's call record is not used by this specification
RiskUnused ==
    /\ rpc = "unused"
    /\ rHeap = <<>>
    /\ rHeap0 = <<>>
    /\ rInput = <<>>
    /\ rOutput = <<>>
    /\ rFirstPass = <<>>
    /\ rTrace = <<>>
    /\ rBankroll = initial_bankroll
    /\ rBankroll0 = initial_bankroll
    /\ rLedger = [bets_today |-> 0, bet_results |-> <<>>]
    /\ rReads = <<>>
    /\ rPrev = <<>>

Init ==
    /\ CtlIdle /\ RiskUnused /\ ExecUnused /\ DecideUnused /\ ReasonUnused
    /\ SleepUnused /\ CacheUnused

\* the loop is about to call _process_current_state
Running ==
    loop = "running" /\ is_running /\ ticks < MaxTicks /\ fetching = NotFetching

\* the argument start() passes to time.sleep after a tick whose handler took
\* elapsed seconds
sleep_time(elapsed) == loop_interval

\* d seconds pass in the tick, then time.sleep(loop_interval)
EndTick(d) ==
    /\ now' = now + d + sleep_time(d)
    /\ ticks' = ticks + 1

\* a handler whose body is inside try/except: pre is added by calls that
\* swallow their own exceptions, W by calls that do not; S is the state the
\* handler sets when nothing raises
Protected(cur, pre, W, p, S) ==
    /\ memory' = memory \o pre \o Written(W, p)
    /\ state' = IF p = -1 THEN S ELSE "ERROR"
    /\ raised_in' = IF p = -1 THEN "None" ELSE cur

\* an exception that reaches start(): except sets ERROR and re-raises
Escaped(cur) ==
    /\ state' = "ERROR"
    /\ loop' = "crashed"
    /\ raised_in' = cur

Start ==
    /\ loop = "not_started"
    /\ is_running' = TRUE
    /\ LET W == <<MemRec("system_event"), MemRec("research_queue")>>
       IN  \E p \in Outcomes(W) :
             /\ memory' = memory \o Written(W, p)
             /\ IF p = -1
                THEN state' = "RESEARCHING" /\ loop' = "running" /\ raised_in' = "None"
                ELSE Escaped("INITIALIZING")
    /\ UNCHANGED <<last_research_time, now, bankroll, ticks, executed, placed,
                   fetch_failed, validated, fetching>>
    /\ UNCHANGED riskVars
    /\ UNCHANGED callVars

\* research results stored so far
Researched == Cardinality({i \in DOMAIN memory : memory[i].type = "research_result"})

\* _store_injury_data_in_memory: an injury_report record, then a
\* team_injury_report record for every team of the report with injured
\* players
store_injury_data_in_memory(teams) ==
    <<MemRec("injury_report")>> \o [i \in 1..teams |-> MemRec("team_injury_report")]

\* What one call of fetch_injury_reports may store.  FirecrawlUtils merges
\* the pages that parse, also the part of a page merged before the merge
\* raises; a report that names the game's teams is stored, for at most
\* MaxInjured teams with injured players.  An add that raises while storing
\* ends the storing silently: with the first add raising, and with Firecrawl
\* disabled or without an answer, nothing is stored.
stored_reports ==
    {<<>>} \cup {store_injury_data_in_memory(teams) : teams \in 0..MaxInjured}

\* The runs of execute_research_tasks from a point inside it up to the next
\* time.sleep(1) of FirecrawlUtils.fetch_injury_reports (wait) or to its
\* return.  games is the number of games of the tick whose fetch has begun,
\* parsed the number of pages that have parsed in the fetch at wait, added
\* the injury records stored on the way.  On return the function gives a
\* result for each of the games, none when it caught an exception (failed);
\* updated tells whether it got as far as storing last_research_time, which
\* it reads from the clock after the fetches.  limit is the number of games
\* that can still be researched: at most MaxGames results are produced in a
\* run.
RECURSIVE fetch_injury_reports(_, _, _)
RECURSIVE fetch_next_game(_, _, _)

\* inside the fetch of one game, parsed pages having parsed: another page
\* parses and FirecrawlUtils sleeps a second after it (at most MaxParsed
\* pages do), or the fetch returns and what it found is stored
fetch_injury_reports(games, parsed, limit) ==
    (IF parsed < MaxParsed
     THEN {[wait |-> TRUE, games |-> games, parsed |-> parsed + 1,
            added |-> <<>>, failed |-> FALSE, updated |-> FALSE]}
     ELSE {})
    \cup UNION {fetch_next_game(games, added, limit) : added \in stored_reports}

\* after the fetch of one game: a later call raises, or the last game is
\* done and the research time is stored (the add of the summary may still
\* raise), or the next game's fetch begins
fetch_next_game(games, added, limit) ==
    {[wait |-> FALSE, games |-> games, parsed |-> 0, added |-> added,
      failed |-> r[1], updated |-> r[2]] :
        r \in {x \in BOOLEAN \X BOOLEAN : x[1] \/ x[2]}}
    \cup (IF games < limit
          THEN {[s EXCEPT !.added = added \o @] :
                   s \in fetch_injury_reports(games + 1, 0, limit)}
          ELSE {})

\* execute_research_tasks from its start: with no pending game it returns
\* before storing a research time
execute_research_tasks(limit) ==
    {[wait |-> FALSE, games |-> 0, parsed |-> 0, added |-> <<>>,
      failed |-> r[1], updated |-> r[2]] :
        r \in {x \in BOOLEAN \X BOOLEAN : x[2] => x[1]}}
    \cup (IF limit > 0 THEN fetch_injury_reports(1, 0, limit) ELSE {})

\* _handle_research_state along the run s of execute_research_tasks, d
\* seconds after the clock read now: at a wait it stays inside the handler;
\* on return it stores a research_result per result and the summary, sets
\* REASONING and the tick ends
research(s, d) ==
    IF s.wait
    THEN /\ fetching' = [games |-> s.games, parsed |-> s.parsed]
         /\ memory' = memory \o s.added
         /\ now' = now + d
         /\ UNCHANGED <<state, last_research_time, ticks, raised_in, fetch_failed>>
    ELSE /\ fetching' = NotFetching
         /\ fetch_failed' = s.failed
         /\ last_research_time' = IF s.updated THEN now + d ELSE last_research_time
         /\ LET n == IF s.failed THEN 0 ELSE s.games
                pre == s.added \o
                          IF n > 0 THEN <<MemRec("research_summary")>> ELSE <<>>
                W == [i \in 1..n |-> MemRec("research_result")]
                        \o <<MemRec("research_summary")>>
            IN  \E p \in Outcomes(W) :
                  Protected("RESEARCHING", pre, W, p, "REASONING")
         /\ EndTick(d)

\* _handle_research_state from its start to its first wait or to its end
HandleResearch ==
    /\ Running
    /\ state = "RESEARCHING"
    /\ \E s \in execute_research_tasks(MaxGames - Researched) : research(s, 0)
    /\ UNCHANGED <<is_running, loop, bankroll, executed, placed>>
    /\ validated' = {}
    /\ UNCHANGED riskVars
    /\ UNCHANGED callVars

\* time.sleep(1) returns: _handle_research_state goes on to its next wait
\* or to its end, whatever is_running has become in the meantime
HandleResearchAfterWait ==
    /\ loop = "running"
    /\ fetching # NotFetching
    /\ \E s \in fetch_injury_reports(fetching.games, fetching.parsed,
                                     MaxGames - Researched) : research(s, 1)
    /\ UNCHANGED <<is_running, loop, bankroll, executed, placed>>
    /\ validated' = {}
    /\ UNCHANGED riskVars
    /\ UNCHANGED callVars

IsResearchResult(r) == r.type = "research_result"
IsBettingDecision(r) == r.type = "betting_decision"
\* variant: the filter without should_bet
IsAnyAssessment(r) == r.type = "risk_assessment"
IsApprovedAssessment(r) == r.type = "risk_assessment" /\ r.should_bet

\* the records execute_reasoning_tasks adds, one per analysed game
reasoning_records(decisions) ==
    [i \in 1..Len(decisions) |->
        IF decisions[i].should_bet
        THEN [MemRec("betting_decision") EXCEPT
                 !.game_id = decisions[i].game_id, !.decision = "bet",
                 !.team = decisions[i].team,
                 !.expected_value = decisions[i].expected_value]
        ELSE [MemRec("betting_decision") EXCEPT
                 !.game_id = decisions[i].game_id, !.decision = "skip"]]

\* the records the handler adds, one per actionable bet
decision_records(actionable) ==
    [i \in 1..Len(actionable) |->
        [MemRec("betting_decision") EXCEPT
            !.game_id = actionable[i].game_id, !.team = actionable[i].team,
            !.expected_value = actionable[i].expected_value,
            !.bet_size = actionable[i].bet_size]]

\* variant: on to risk assessment whatever was proposed
after_reasoning_always_assesses(actionable_bets) == "RISK_ASSESSMENT"

\* the state the handler sets when nothing raised
after_reasoning(actionable_bets) ==
    IF actionable_bets # <<>> THEN "RISK_ASSESSMENT" ELSE "IDLE"

\* a search result carries content and metadata only: no odds_data key
HandleReasoning ==
    /\ Running
    /\ state = "REASONING"
    /\ \E research_data \in search({i \in DOMAIN memory : IsResearchResult(memory[i])}, search_limit) :
         \E decisions \in {[i \in 1..Len(research_data) |->
                               reason_about([game_id |-> memory[research_data[i]].game_id,
                                             odds_data |-> NoOdds], bankroll)]} :
           LET actionable_bets == SelectSeq(decisions, LAMBDA d : d.should_bet)
               W == reasoning_records(decisions)
                       \o <<MemRec("reasoning_result")>>
                       \o decision_records(actionable_bets)
           IN  \E p \in Outcomes(W) :
                 Protected("REASONING", <<>>, W, p, after_reasoning(actionable_bets))
    /\ EndTick(0)
    /\ UNCHANGED <<is_running, loop, last_research_time, bankroll, executed, placed>>
    /\ fetch_failed' = FALSE
    /\ UNCHANGED fetching
    /\ validated' = {}
    /\ UNCHANGED riskVars
    /\ UNCHANGED callVars

assessment_records(heap, out) ==
    [i \in 1..Len(out) |->
        LET d == heap[out[i]]
        IN  [MemRec("risk_assessment") EXCEPT
                !.game_id = d.game_id, !.team = d.team,
                !.should_bet = d.should_bet,
                !.original_bet_size = IF d.has_original THEN d.original_bet_size
                                      ELSE d.bet_size,
                !.adjusted_bet_size = d.bet_size]]

\* variant: on to execution whatever was approved
after_risk_assessment_always_executes(validated_decisions) == "EXECUTING"

\* the state the handler sets when nothing raised: actionable_decisions are
\* the validated decisions whose should_bet is True
after_risk_assessment(validated_decisions) ==
    LET actionable_decisions == SelectSeq(validated_decisions, LAMBDA d : d.should_bet)
    IN  IF actionable_decisions # <<>> THEN "EXECUTING" ELSE "IDLE"

HandleRisk ==
    /\ Running
    /\ state = "RISK_ASSESSMENT"
    /\ \E betting_decisions \in search({i \in DOMAIN memory : IsBettingDecision(memory[i])}, search_limit),
          ledger \in CtlLedgers :
         \E r \in {validate_betting_decisions(
                       [i \in 1..Len(betting_decisions) |->
                           Decision(memory[betting_decisions[i]].game_id,
                                    memory[betting_decisions[i]].team,
                                    memory[betting_decisions[i]].expected_value,
                                    memory[betting_decisions[i]].bet_size, TRUE)],
                       [i \in 1..Len(betting_decisions) |-> i], ledger, bankroll)} :
         LET W == assessment_records(r.heap, r.out) \o <<MemRec("risk_metrics")>>
             validated_decisions == [i \in 1..Len(r.out) |-> r.heap[r.out[i]]]
         IN  IF r.raised
             THEN /\ Protected("RISK_ASSESSMENT", <<>>, <<>>, 0, "ERROR")
                  /\ validated' = {}
             ELSE /\ \E p \in Outcomes(W) :
                       Protected("RISK_ASSESSMENT", <<>>, W, p,
                                 after_risk_assessment(validated_decisions))
                  /\ validated' = {[tick |-> memory[betting_decisions[i]].tick,
                                     decision |-> memory[betting_decisions[i]].decision] :
                                    i \in 1..Len(betting_decisions)}
    /\ EndTick(0)
    /\ UNCHANGED <<is_running, loop, last_research_time, bankroll, executed, placed>>
    /\ fetch_failed' = FALSE
    /\ UNCHANGED fetching
    /\ UNCHANGED riskVars
    /\ UNCHANGED callVars

update_bankroll(b, amount, is_win) ==
    IF is_win THEN RAdd(b, amount) ELSE RSub(b, amount)

RECURSIVE debit_first(_, _, _)
debit_first(b, bets, k) ==
    IF k = 0 THEN b
    ELSE update_bankroll(debit_first(b, bets, k - 1), bets[k].amount, FALSE)

\* variant: debit every bet that was handed over
recorded_bets_are_approved(approved_bets, execution_results) ==
    [i \in 1..Len(approved_bets) |-> [amount |-> approved_bets[i].bet_size]]

\* execution_results.get("bets", []): the bets the handler debits
recorded_bets(approved_bets, execution_results) ==
    IF "bets" \in DOMAIN execution_results THEN execution_results.bets ELSE <<>>

\* for each assessment the search (limit 1) for its betting decision:
\* <<>> when nothing comes back, else the metadata keys the handler reads
\* from the one matching record that comes back
RECURSIVE decision_lookups(_)
decision_lookups(assessments) ==
    IF assessments = <<>> THEN {<<>>}
    ELSE LET a == memory[Head(assessments)]
             Same(r) == /\ r.type = "betting_decision"
                        /\ r.game_id = a.game_id
                        /\ r.team = a.team
             found == {IF hit = <<>> THEN <<>>
                       ELSE <<[expected_value |-> memory[hit[1]].expected_value]>> :
                       hit \in search({i \in DOMAIN memory : Same(memory[i])}, 1)}
         IN  {<<f>> \o rest : f \in found,
                              rest \in decision_lookups(Tail(assessments))}

\* variant: the dicts carry a "metadata" dict that says decision = "bet"
approved_of_with_metadata(assessments, lookups) ==
    LET hits == SelectSeq([i \in 1..Len(assessments) |-> i],
                          LAMBDA i : lookups[i] # <<>>)
    IN  [k \in 1..Len(hits) |->
            [assessment |-> assessments[hits[k]],
             game_id |-> memory[assessments[hits[k]]].game_id,
             team |-> memory[assessments[hits[k]]].team,
             expected_value |-> lookups[hits[k]][1].expected_value,
             bet_size |-> memory[assessments[hits[k]]].adjusted_bet_size,
             should_bet |-> TRUE,
             meta_decision |-> "bet"]]

\* the dicts the handler builds: flat, without a "metadata" key.  The field
\* assessment is not a key of the dict: it names the risk_assessment record
\* the dict was built from.
approved_of(assessments, lookups) ==
    LET hits == SelectSeq([i \in 1..Len(assessments) |-> i],
                          LAMBDA i : lookups[i] # <<>>)
    IN  [k \in 1..Len(hits) |->
            [assessment |-> assessments[hits[k]],
             game_id |-> memory[assessments[hits[k]]].game_id,
             team |-> memory[assessments[hits[k]]].team,
             expected_value |-> lookups[hits[k]][1].expected_value,
             bet_size |-> memory[assessments[hits[k]]].adjusted_bet_size,
             should_bet |-> TRUE,
             meta_decision |-> "None"]]

bet_records(bet_details) ==
    [i \in 1..Len(bet_details) |->
        [MemRec("bet_record") EXCEPT !.game_id = bet_details[i].game_id,
                                     !.team = bet_details[i].team,
                                     !.amount = bet_details[i].amount,
                                     !.status = "placed"]]

HandleExecution ==
    /\ Running
    /\ state = "EXECUTING"
    /\ \E risk_assessments \in search({i \in DOMAIN memory : IsApprovedAssessment(memory[i])}, search_limit) :
       \E lookups \in decision_lookups(risk_assessments) :
       \E approved_bets \in {approved_of(risk_assessments, lookups)} :
       \E execution_results \in {execute_betting_actions(approved_bets, bankroll)} :
         LET bets == recorded_bets(approved_bets, execution_results)
             nplaced == Len(execution_results.bet_details)
             W == bet_records(execution_results.bet_details)
                     \o <<MemRec("execution_result")>>
                     \o [i \in 1..Len(bets) |-> MemRec("bankroll_update")]
         IN  \/ \* one of the searches raises
                /\ Protected("EXECUTING", <<>>, <<>>, 0, "IDLE")
                /\ UNCHANGED <<bankroll, executed, placed>>
             \/ /\ approved_bets = <<>>
                /\ Protected("EXECUTING", <<>>, <<>>, -1, "IDLE")
                /\ UNCHANGED <<bankroll, executed, placed>>
             \/ /\ approved_bets # <<>>
                /\ \E p \in Outcomes(W) :
                     /\ execution_results.raised => (p >= 0 /\ p <= nplaced)
                     /\ Protected("EXECUTING", <<>>, W, p, "IDLE")
                     /\ executed' = Append(executed, [tick |-> ticks, bets |-> approved_bets])
                     /\ placed' = placed \o
                           (IF p = -1 \/ p >= nplaced THEN execution_results.bet_details
                            ELSE SubSeq(execution_results.bet_details, 1, p + 1))
                     /\ bankroll' =
                           debit_first(bankroll, bets,
                                       IF p = -1 THEN Len(bets)
                                       ELSE IF p > nplaced THEN p - nplaced
                                       ELSE 0)
    /\ EndTick(0)
    /\ UNCHANGED <<is_running, loop, last_research_time>>
    /\ fetch_failed' = FALSE
    /\ UNCHANGED fetching
    /\ validated' = {}
    /\ UNCHANGED riskVars
    /\ UNCHANGED callVars

\* seconds between the end of the previous tick's sleep and this tick's
\* reading of the clock (IDLE ticks that change nothing are not counted one
\* by one)
IdleWaits == {0, research_interval}

\* get_last_research_time is called outside the try block; monitor_outcomes
\* finds no bet_record to settle and get_risk_metrics only reads
HandleIdle ==
    /\ Running
    /\ state = "IDLE"
    /\ \E raises \in BOOLEAN, d \in IdleWaits :
         LET current_time == now + d
             last == IF last_research_time = NoTime THEN current_time
                     ELSE last_research_time
         IN  IF raises
             THEN /\ Escaped("IDLE")
                  /\ now' = current_time
                  /\ ticks' = ticks + 1
             ELSE /\ state' = IF current_time - last > research_interval
                               THEN "RESEARCHING" ELSE "IDLE"
                  /\ raised_in' = "None"
                  /\ loop' = loop
                  /\ EndTick(d)
    /\ UNCHANGED <<is_running, memory, last_research_time, bankroll, executed, placed>>
    /\ fetch_failed' = FALSE
    /\ UNCHANGED fetching
    /\ validated' = {}
    /\ UNCHANGED riskVars
    /\ UNCHANGED callVars

\* memory.add is called outside any try block
HandleError ==
    /\ Running
    /\ state = "ERROR"
    /\ \E raises \in BOOLEAN :
         IF raises
         THEN /\ Escaped("ERROR")
              /\ memory' = memory
              /\ now' = now
              /\ ticks' = ticks + 1
         ELSE /\ memory' = Append(memory, MemRec("system_event"))
              /\ state' = "IDLE"
              /\ raised_in' = "None"
              /\ loop' = loop
              /\ EndTick(0)
    /\ UNCHANGED <<is_running, last_research_time, bankroll, executed, placed>>
    /\ fetch_failed' = FALSE
    /\ UNCHANGED fetching
    /\ validated' = {}
    /\ UNCHANGED riskVars
    /\ UNCHANGED callVars

\* stop(), called from the signal handler
Stop ==
    /\ loop = "running"
    /\ is_running
    /\ is_running' = FALSE
    /\ UNCHANGED <<state, loop, memory, last_research_time, now, bankroll, ticks,
                   raised_in, executed, placed, fetch_failed, validated, fetching>>
    /\ UNCHANGED riskVars
    /\ UNCHANGED callVars

\* while self.is_running: ends the loop
LoopExit ==
    /\ loop = "running"
    /\ ~is_running
    /\ fetching = NotFetching
    /\ loop' = "stopped"
    /\ UNCHANGED <<state, is_running, memory, last_research_time, now, bankroll,
                   ticks, raised_in, executed, placed, fetch_failed, validated, fetching>>
    /\ UNCHANGED riskVars
    /\ UNCHANGED callVars


Next ==
    \/ Start
    \/ HandleResearch
    \/ HandleResearchAfterWait
    \/ HandleReasoning
    \/ HandleRisk
    \/ HandleExecution
    \/ HandleIdle
    \/ HandleError
    \/ Stop
    \/ LoopExit

Spec == Init /\ [][Next]_vars

-----------------------------------------------------------------------------
(* Properties of the controller (Spec) *)

Calls == 1..Len(executed)
BetsOf(c) == 1..Len(executed[c].bets)

\* C1: every entry handed to execute_betting_actions was built from a
\* risk_assessment record whose should_bet is True and names a team (a
\* decision marked "skip" names none); and a bet is placed only for an
\* entry that was handed over.
C1_RejectedNeverExecuted ==
    /\ \A c \in Calls : \A k \in BetsOf(c) :
         LET b == executed[c].bets[k]
         IN  /\ memory[b.assessment].type = "risk_assessment"
             /\ memory[b.assessment].should_bet
             /\ b.team # "None"
    /\ \A i \in 1..Len(placed) :
         \E c \in Calls : \E k \in BetsOf(c) :
            /\ executed[c].bets[k].game_id = placed[i].game_id
            /\ executed[c].bets[k].team = placed[i].team

\* a rejected assessment and a hand-over of approved bets made after it
C1_Witness ==
    \E i \in DOMAIN memory : \E c \in Calls :
       /\ memory[i].type = "risk_assessment"
       /\ ~memory[i].should_bet
       /\ executed[c].tick > memory[i].tick
       /\ executed[c].bets # <<>>

\* C2: when two calls of execute_betting_actions hand over an entry for the
\* same (game_id, team), the later entry was built from a risk assessment
\* made after the earlier call.
C2_NoResubmission ==
    \A c1 \in Calls : \A c2 \in Calls :
       c1 < c2 =>
         \A k1 \in BetsOf(c1) : \A k2 \in BetsOf(c2) :
            LET b1 == executed[c1].bets[k1]
                b2 == executed[c2].bets[k2]
            IN  (b1.game_id = b2.game_id /\ b1.team = b2.team)
                  => memory[b2.assessment].tick > executed[c1].tick

\* C5: a REASONING, RISK_ASSESSMENT or EXECUTING tick leaves the bankroll as
\* it was (no other step of the controller assigns it either).
C5_BankrollUnchanged ==
    [][(state \in {"REASONING", "RISK_ASSESSMENT", "EXECUTING"}
          => bankroll' = bankroll)]_vars

\* approved bets were handed to the execution module and the bankroll is
\* still the initial one
C5_Witness ==
    /\ executed # <<>>
    /\ \E c \in Calls : \E k \in BetsOf(c) :
          RLt(Num(0), executed[c].bets[k].bet_size)
    /\ bankroll = Num(initial_bankroll)

\* C9: a tick in which the RESEARCHING handler raises ends in ERROR with the
\* loop running, and the tick after it ends in IDLE with the loop running.
C9_ResearchErrorRecovers ==
    [][((state = "RESEARCHING" /\ raised_in' = "RESEARCHING")
            => (state' = "ERROR" /\ loop' = "running"))
       /\ ((state = "ERROR" /\ raised_in = "RESEARCHING" /\ ticks' # ticks)
            => (state' = "IDLE" /\ loop' = "running"))]_vars

AgentState == {"INITIALIZING", "RESEARCHING", "REASONING", "RISK_ASSESSMENT",
               "EXECUTING", "IDLE", "ERROR"}

ListedTransitions ==
    {<<"INITIALIZING", "RESEARCHING">>,
     <<"RESEARCHING", "REASONING">>, <<"RESEARCHING", "ERROR">>,
     <<"REASONING", "RISK_ASSESSMENT">>, <<"REASONING", "IDLE">>,
     <<"REASONING", "ERROR">>,
     <<"RISK_ASSESSMENT", "EXECUTING">>, <<"RISK_ASSESSMENT", "IDLE">>,
     <<"RISK_ASSESSMENT", "ERROR">>,
     <<"EXECUTING", "IDLE">>, <<"EXECUTING", "ERROR">>,
     <<"IDLE", "RESEARCHING">>, <<"IDLE", "IDLE">>,
     <<"ERROR", "IDLE">>}

\* C10: the state is one of the seven AgentState values, INITIALIZING until
\* start() is called, and every change of state is a listed transition.
C10_ListedTransitionsOnly ==
    [][(state \in AgentState)
       /\ (loop = "not_started" => state = "INITIALIZING")
       /\ (state' # state => <<state, state'>> \in ListedTransitions)]_vars

\* C11: while stop() has not been called, no tick ends the loop (an exception
\* raised in a handler, the IDLE and ERROR handlers included, is caught and
\* the loop goes on), and a tick that starts in ERROR ends in IDLE.
C11_NoStateTerminal ==
    [][((loop = "running" /\ is_running) => loop' = "running")
       /\ ((state = "ERROR" /\ ticks' # ticks) => state' = "IDLE")]_vars

-----------------------------------------------------------------------------
(* SpecLive: the main loop in runs that go on for ever *)

\* while no research time is stored no handler's result depends on the clock;
\* past this reading it is folded back instead of growing without bound
ClockHorizon == 2 * (research_interval + loop_interval)

\* _handle_idle_state as in HandleIdle, every idle tick coming a research
\* interval after the one before.  A tick that leaves the state IDLE stores
\* no record and is not counted in ticks, so a run can stay in IDLE for ever.
HandleIdleLive ==
    /\ Running
    /\ state = "IDLE"
    /\ \E raises \in BOOLEAN :
         LET current_time == now + research_interval
             last == IF last_research_time = NoTime THEN current_time
                     ELSE last_research_time
             stale == current_time - last > research_interval
             slept == current_time + loop_interval
         IN  IF raises
             THEN /\ Escaped("IDLE")
                  /\ now' = current_time
                  /\ ticks' = ticks + 1
             ELSE /\ state' = IF stale THEN "RESEARCHING" ELSE "IDLE"
                  /\ raised_in' = "None"
                  /\ loop' = loop
                  /\ IF stale
                     THEN EndTick(research_interval)
                     ELSE /\ ticks' = ticks
                          /\ now' = IF slept > ClockHorizon
                                    THEN slept - ClockHorizon ELSE slept
    /\ UNCHANGED <<is_running, memory, last_research_time, bankroll, executed, placed>>
    /\ fetch_failed' = FALSE
    /\ UNCHANGED fetching
    /\ validated' = {}
    /\ UNCHANGED riskVars
    /\ UNCHANGED callVars

\* one iteration of "while self.is_running: self._process_current_state()"
Tick ==
    \/ HandleResearch
    \/ HandleResearchAfterWait
    \/ HandleReasoning
    \/ HandleRisk
    \/ HandleExecution
    \/ HandleIdleLive
    \/ HandleError

NextLive ==
    \/ Start
    \/ Tick
    \/ Stop
    \/ LoopExit

\* the loop is single-threaded and every handler returns or raises: while
\* the loop runs, the next iteration is always taken
SpecLive == Init /\ [][NextLive]_vars /\ WF_vars(Tick)

\* C12: with the loop running, a controller in IDLE eventually moves to
\* RESEARCHING (every idle tick comes a research interval after the one
\* before), unless stop() is called or the loop ends first.
C12_IdleLeadsToResearch ==
    (state = "IDLE" /\ loop = "running" /\ is_running /\ ticks < MaxTicks)
        ~> (state = "RESEARCHING" \/ loop # "running" \/ ~is_running)

\* C13: a RESEARCHING tick in which a fetch failed ends in ERROR; the tick
\* ends in REASONING only when research did not fail.
C13_FetchFailureIsError ==
    [][(state = "RESEARCHING" /\ ticks' # ticks)
          => /\ (fetch_failed' => state' = "ERROR")
             /\ (state' = "REASONING" => ~fetch_failed')]_vars

\* the approved assessments stored by the risk pass of the cycle an EXECUTING
\* tick belongs to: the RISK_ASSESSMENT tick is the one just before it
ApprovedThisCycle ==
    {i \in DOMAIN memory : IsApprovedAssessment(memory[i]) /\ memory[i].tick = ticks - 1}

\* C14: an EXECUTING tick that hands every decision approved in its cycle to
\* the execution module and ends in IDLE has made exactly one placement per
\* approved decision.
C14_ApprovedArePlaced ==
    [][(/\ state = "EXECUTING"
        /\ state' = "IDLE"
        /\ Len(executed') = Len(executed) + 1
        /\ \A i \in ApprovedThisCycle :
              \E k \in 1..Len(executed'[Len(executed')].bets) :
                 executed'[Len(executed')].bets[k].assessment = i)
          => \A i \in ApprovedThisCycle :
                Cardinality({k \in (Len(placed) + 1)..Len(placed') :
                                /\ placed'[k].game_id = memory[i].game_id
                                /\ placed'[k].team = memory[i].team})
                  = Cardinality({j \in ApprovedThisCycle :
                                   /\ memory[j].game_id = memory[i].game_id
                                   /\ memory[j].team = memory[i].team})]_vars

\* C15: every record a RISK_ASSESSMENT tick has validated is a decision the
\* REASONING tick of the same cycle (the tick just before it) stored, and is
\* not a decision recorded as skipped.
C15_ValidatedAreThisCycles ==
    \A v \in validated :
       /\ v.tick = ticks - 2
       /\ v.decision # "skip"

\* the records a tick has added to the memory
AddedBy(before, after) == {after[i] : i \in (Len(before) + 1)..Len(after)}

\* C16: a REASONING tick in which nothing raised ends in RISK_ASSESSMENT when
\* reasoning proposed at least one bet (it stored a decision marked "bet"),
\* and in IDLE otherwise.
C16_ReasoningOutcome ==
    [][(state = "REASONING" /\ ticks' # ticks /\ raised_in' = "None")
          => state' = IF \E r \in AddedBy(memory, memory') :
                            r.type = "betting_decision" /\ r.decision = "bet"
                       THEN "RISK_ASSESSMENT" ELSE "IDLE"]_vars

\* a REASONING tick has proposed a bet and the controller is on to risk
\* assessment
C16_Witness ==
    /\ state = "RISK_ASSESSMENT"
    /\ raised_in = "None"
    /\ \E i \in DOMAIN memory :
          /\ memory[i].type = "betting_decision"
          /\ memory[i].decision = "bet"
          /\ memory[i].tick = ticks - 1

\* C17: a RISK_ASSESSMENT tick in which nothing raised ends in EXECUTING when
\* at least one decision is still approved after validation (it stored an
\* assessment with should_bet = True), and in IDLE otherwise.
C17_RiskOutcome ==
    [][(state = "RISK_ASSESSMENT" /\ ticks' # ticks /\ raised_in' = "None")
          => state' = IF \E r \in AddedBy(memory, memory') : IsApprovedAssessment(r)
                       THEN "EXECUTING" ELSE "IDLE"]_vars

\* a RISK_ASSESSMENT tick has validated decisions, rejected them all and the
\* controller is idle
C17_Witness ==
    /\ state = "IDLE"
    /\ raised_in = "None"
    /\ validated # {}
    /\ \E i \in DOMAIN memory :
          /\ memory[i].type = "risk_assessment"
          /\ ~memory[i].should_bet
          /\ memory[i].tick = ticks - 1
    /\ ~\E i \in DOMAIN memory :
          IsApprovedAssessment(memory[i]) /\ memory[i].tick = ticks - 1

\* C18: an EXECUTING tick that has handed its approved bets to the execution
\* module (submission was attempted) ends in IDLE.
C18_ExecutionEndsIdle ==
    [][(state = "EXECUTING" /\ Len(executed') = Len(executed) + 1)
          => state' = "IDLE"]_vars

-----------------------------------------------------------------------------
(* SpecExec: execute_betting_actions on bounded inputs, test and live mode *)

MaxBets == 2
MaxMonitor == 2

\* What the venue does with one POST /bets:
\*   "accepted"    a 2xx answer whose body carries a bet_id
\*   "refused"     a 2xx answer whose body says the bet was not accepted and
\*                 carries no bet_id
\*   "http_error"  a 4xx/5xx answer: raise_for_status raises
\*   "raises"      requests.post itself raises
VenueAnswers == {"accepted", "refused", "http_error", "raises"}

\* PolymarketAPI.place_bet: raises on any exception of the request, else
\* returns result.get("bet_id"), whatever else the body says
polymarket_place_bet(answer) ==
    [raised |-> answer \in {"http_error", "raises"},
     bet_id |-> IF answer = "accepted" THEN "id" ELSE "None"]

\* ExecutionModule.place_bet: success is False only when the API call raised
place_bet(answer, amount) ==
    LET result == polymarket_place_bet(answer)
    IN  IF result.raised
        THEN [success |-> FALSE, bet_id |-> "None", amount |-> amount]
        ELSE [success |-> TRUE, bet_id |-> result.bet_id, amount |-> amount]

\* the body of execute_betting_actions' for loop from entry i on; acc is
\* what the entries before i have done.  add_raises is the number of
\* record_bet calls that succeed before one raises (-1: none raises); that
\* exception, like the TypeError of _calculate_bet_size, leaves the loop and
\* the function.
RECURSIVE betting_loop(_, _, _, _, _, _, _)
betting_loop(betting_decisions, config_bankroll, test_mode, venue, add_raises, i, acc) ==
    IF i > Len(betting_decisions) \/ acc.raised THEN acc
    ELSE Only({
         LET decision == betting_decisions[i]
             bet_result == IF test_mode
                           THEN [success |-> TRUE, bet_id |-> "test", amount |-> bet_size]
                           ELSE place_bet(venue[i], bet_size)
             add_fails == add_raises = Len(acc.bet_details)
             next ==
                 IF decision.meta_decision # "bet" THEN acc
                 ELSE IF Raised(bet_size) THEN [acc EXCEPT !.raised = TRUE]
                 ELSE IF RLt(bet_size, Num(min_bet)) THEN acc
                 ELSE IF ~bet_result.success
                      THEN [acc EXCEPT !.submitted[i] = ~test_mode]
                 ELSE [acc EXCEPT
                          !.submitted[i] = ~test_mode,
                          !.counted[i] = TRUE,
                          !.recorded[i] = ~add_fails,
                          !.raised = add_fails,
                          !.bets_placed = @ + 1,
                          !.total_amount = RAdd(@, bet_result.amount),
                          !.bet_details = Append(@, [game_id |-> decision.game_id,
                                                     team |-> decision.team,
                                                     amount |-> bet_result.amount,
                                                     bet_id |-> bet_result.bet_id])]
         IN  betting_loop(betting_decisions, config_bankroll, test_mode, venue,
                          add_raises, i + 1, next) :
         bet_size \in {calculate_bet_size(betting_decisions[i].expected_value,
                                          config_bankroll)}})

\* execute_betting_actions with the venue's answers and the memory's
\* failure as inputs
execute_betting_actions_with(betting_decisions, config_bankroll, test_mode, venue, add_raises) ==
    LET none == [i \in 1..Len(betting_decisions) |-> FALSE]
    IN  betting_loop(betting_decisions, config_bankroll, test_mode, venue, add_raises, 1,
                     [NothingDone EXCEPT !.submitted = none, !.counted = none,
                                         !.recorded = none])

ExecEdges == {Num(3), Num(30)}

ExecEntries ==
    {[game_id |-> g, team |-> "home", expected_value |-> ev, meta_decision |-> m] :
        g \in {"g1", "g2"}, ev \in ExecEdges, m \in {"bet", "skip"}}

ExecBatches == UNION {[1..n -> ExecEntries] : n \in 0..MaxBets}

\* what the store holds when the execution module is called: the persona
\* record, and the betting_decision record of game g1 or none
ExecStores ==
    {<<MemRec("persona_config")>>,
     <<MemRec("persona_config"),
       [MemRec("betting_decision") EXCEPT !.game_id = "g1", !.team = "home"]>>}

InitExec ==
    /\ xpc = "ready"
    /\ xDecisions \in ExecBatches
    /\ xTestMode \in BOOLEAN
    /\ xArgs = IF xTestMode THEN NoFlags
               ELSE [NoFlags EXCEPT !.live = TRUE, !.env_api_key = TRUE]
    /\ xVenue \in [1..Len(xDecisions) -> VenueAnswers]
    /\ xAddRaises \in -1..(Len(xDecisions) - 1)
    /\ xResult = NothingDone
    /\ CtlFresh
    /\ memory \in ExecStores
    /\ RiskUnused
    /\ DecideUnused
    /\ ReasonUnused
    /\ SleepUnused
    /\ CacheUnused

\* the records record_bet stored before the call returned or raised
stored_bets(result) ==
    bet_records(SubSeq(result.bet_details, 1,
                       Cardinality({i \in DOMAIN result.recorded : result.recorded[i]})))

ExecuteCall ==
    /\ xpc = "ready"
    /\ \E result \in {execute_betting_actions_with(xDecisions, Num(initial_bankroll),
                                                    xTestMode, xVenue, xAddRaises)} :
           /\ xResult' = result
           /\ xpc' = IF result.raised THEN "raised" ELSE "done"
           /\ memory' = memory \o stored_bets(result)
    /\ UNCHANGED <<xDecisions, xArgs, xTestMode, xVenue, xAddRaises>>
    /\ UNCHANGED <<decideVars, reasonVars, sleepVars, cacheVars>>
    /\ UNCHANGED <<state, is_running, loop, last_research_time, now, bankroll,
                   ticks, raised_in, executed, placed, fetch_failed, validated, fetching>>
    /\ UNCHANGED riskVars

\* the "settled" records one monitor_outcomes call adds for the entries in
\* completed, in the order of the search result; won[i] is what
\* _get_game_result says of entry i's game
settlement_records(completed, won) ==
    LET order == SeqOfSet(completed)
    IN  [k \in 1..Len(order) |->
            [type |-> "bet_record",
             entry |-> order[k],
             outcome |-> IF won[order[k]] THEN "won" ELSE "lost"]]

\* update_strategy: the search (limit 1) for the betting decision of the
\* game; a strategy_update record is added when it returns one (found)
update_strategy(game_id, team, bet_won, found) ==
    IF found
    THEN <<[MemRec("strategy_update") EXCEPT
               !.game_id = game_id, !.team = team,
               !.outcome = IF bet_won THEN "won" ELSE "lost"]>>
    ELSE <<>>

\* the records one monitor_outcomes call adds to the store for the entries
\* of order, one after the other: the "settled" record, then what
\* update_strategy adds
RECURSIVE settled_records(_, _, _)
settled_records(order, won, found) ==
    IF order = <<>> THEN <<>>
    ELSE <<[MemRec("bet_record") EXCEPT
               !.game_id = xDecisions[Head(order)].game_id,
               !.status = "settled",
               !.outcome = IF won[Head(order)] THEN "won" ELSE "lost"]>>
         \o update_strategy(xDecisions[Head(order)].game_id,
                            xDecisions[Head(order)].team,
                            won[Head(order)], found[Head(order)])
         \o settled_records(Tail(order), won, found)

\* the store holds the betting decision of the game
HasDecision(game_id) ==
    \E j \in DOMAIN memory :
       memory[j].type = "betting_decision" /\ memory[j].game_id = game_id

\* monitor_outcomes: of the bet records with status "placed" the search
\* returns, those whose game _check_game_status reports completed get a
\* "settled" record, added next to the "placed" one, which stays as it is,
\* and update_strategy is called for each.  The controller calls it in
\* every IDLE tick.
MonitorOutcomes ==
    /\ xpc \in {"done", "raised", "monitored"}
    /\ xResult.monitor_calls < MaxMonitor
    /\ \E completed \in SUBSET {i \in DOMAIN xDecisions : xResult.recorded[i]} :
       \E won \in [completed -> BOOLEAN] :
       \E found \in [completed -> BOOLEAN] :
           /\ \A i \in completed : found[i] => HasDecision(xDecisions[i].game_id)
           /\ xResult' = [xResult EXCEPT
                             !.settled = @ \cup completed,
                             !.settlements = @ \o settlement_records(completed, won),
                             !.monitor_calls = @ + 1]
           /\ memory' = memory \o settled_records(SeqOfSet(completed), won, found)
    /\ xpc' = "monitored"
    /\ UNCHANGED <<xDecisions, xArgs, xTestMode, xVenue, xAddRaises>>
    /\ UNCHANGED <<decideVars, reasonVars, sleepVars, cacheVars>>
    /\ UNCHANGED <<state, is_running, loop, last_research_time, now, bankroll,
                   ticks, raised_in, executed, placed, fetch_failed, validated,
                   fetching>>
    /\ UNCHANGED riskVars

NextExec == ExecuteCall \/ MonitorOutcomes

SpecExec == InitExec /\ [][NextExec]_vars

\* C19: in live mode a submission the venue answers without accepting it
\* and a submission whose call raises end the same way: the entry is not
\* counted in bets_placed / total_amount, no bet record is stored for it and
\* no settlement is ever recorded for it.
C19_RefusedLikeRaised ==
    (xpc \in {"done", "monitored"} /\ ~xResult.raised) =>
        \A i \in DOMAIN xDecisions :
            (xResult.submitted[i] /\ xVenue[i] # "accepted") =>
                /\ ~xResult.counted[i]
                /\ ~xResult.recorded[i]
                /\ i \notin xResult.settled

-----------------------------------------------------------------------------
(* SpecDecide: make_betting_decision on bounded inputs *)

\* edges in percent: negative, below, at and above min_ev_threshold
DecideEdges ==
    {Float(-1), float_of(Rat(1, 2)), Float(min_ev_threshold), Float(3), Float(7)}

DecideKellies == {Zero, float_of(Rat(1, 20)), float_of(Rat(1, 2))}

EvCalculations ==
    {[game_id |-> "g1", home_expected_value |-> h, away_expected_value |-> a,
      home_kelly |-> hk, away_kelly |-> ak] :
        h \in DecideEdges, a \in DecideEdges,
        hk \in DecideKellies, ak \in DecideKellies}

InitDecide ==
    /\ dpc = "ready"
    /\ dInput \in EvCalculations
    /\ dOutput = <<>>
    /\ CtlIdle
    /\ RiskUnused
    /\ ExecUnused
    /\ ReasonUnused
    /\ SleepUnused
    /\ CacheUnused

DecideCall ==
    /\ dpc = "ready"
    /\ dOutput' = make_betting_decision(dInput, Num(initial_bankroll))
    /\ dpc' = "done"
    /\ UNCHANGED dInput
    /\ UNCHANGED <<execVars, reasonVars, sleepVars, cacheVars>>
    /\ UNCHANGED ctlVars
    /\ UNCHANGED riskVars

NextDecide == DecideCall

SpecDecide == InitDecide /\ [][NextDecide]_vars

\* C20: make_betting_decision rejects (should_bet False, stake 0, a reason
\* that names the threshold) exactly when the best edge is strictly below
\* min_ev_threshold; an edge equal to or above the threshold is proposed.
C20_RejectsExactlyBelowThreshold ==
    dpc = "done" =>
        LET best_edge == FMax(dInput.home_expected_value, dInput.away_expected_value)
        IN  IF FLt(best_edge, Float(min_ev_threshold))
            THEN /\ ~dOutput.should_bet
                 /\ dOutput.bet_size = Zero
                 /\ dOutput.reasoning = "below_threshold"
            ELSE dOutput.should_bet

\* C21: the decision is made on the outcome with the largest edge, home
\* before away when the two edges are equal: whenever the largest edge is
\* above min_ev_threshold the decision is a bet on that outcome, so two
\* equal edges above the threshold give a bet on home.
C21_LargestEdgeHomeFirst ==
    dpc = "done" =>
        LET home_ev == dInput.home_expected_value
            away_ev == dInput.away_expected_value
            first_largest == IF FLt(home_ev, away_ev) THEN "away" ELSE "home"
        IN  FLt(Float(min_ev_threshold), FMax(home_ev, away_ev)) =>
                /\ dOutput.should_bet
                /\ dOutput.team = first_largest
                /\ dOutput.expected_value = FMax(home_ev, away_ev)

-----------------------------------------------------------------------------
(* SpecReason: compare_to_market_odds, calculate_expected_value,           *)
(* make_betting_decision and _calculate_bet_size on bounded inputs         *)

\* the model's probabilities that the home and the away team win, each the
\* float nearest to a whole number of percent
ReasonProbs ==
    {[home |-> float_of(Rat(p, 100)), away |-> float_of(Rat(100 - p, 100))] :
        p \in {30, 50, 51, 55, 70}}

\* a moneyline quote; 0 stands for a book that gives none
ReasonQuotes == {0, -150, 100, 150}

ReasonOdds ==
    {NoOdds} \cup
    {[present |-> TRUE, dk_home |-> dh, dk_away |-> da,
      true_home |-> th, true_away |-> ta] :
        dh \in ReasonQuotes, da \in ReasonQuotes,
        th \in ReasonQuotes, ta \in ReasonQuotes}

\* config["betting"]["bankroll"]
ReasonBankrolls == {Num(0), Num(initial_bankroll), Num(100 * initial_bankroll)}

InitReason ==
    /\ qpc = "ready"
    /\ qInput \in {[home_win_probability |-> pr.home,
                     away_win_probability |-> pr.away,
                     odds_data |-> od, bankroll |-> b] :
                       pr \in ReasonProbs, od \in ReasonOdds, b \in ReasonBankrolls}
    /\ qOutput = <<>>
    /\ CtlIdle
    /\ RiskUnused
    /\ ExecUnused
    /\ DecideUnused
    /\ SleepUnused
    /\ CacheUnused

\* the steps execute_reasoning_tasks runs after calculate_probabilities, and
\* the stake the execution module computes for each outcome's edge
ReasonCall ==
    /\ qpc = "ready"
    /\ \E market_comparison \in
              {compare_to_market_odds(
                   [game_id |-> "g1",
                    home_win_probability |-> qInput.home_win_probability,
                    away_win_probability |-> qInput.away_win_probability],
                   "g1", qInput.odds_data)} :
         \E ev_calculation \in {calculate_expected_value(market_comparison)} :
           qOutput' = [market_comparison |-> market_comparison,
                       ev_calculation |-> ev_calculation,
                       decision |-> make_betting_decision(ev_calculation, qInput.bankroll),
                       home_execution_stake |->
                           calculate_bet_size(ev_calculation.home_expected_value,
                                              qInput.bankroll),
                       away_execution_stake |->
                           calculate_bet_size(ev_calculation.away_expected_value,
                                              qInput.bankroll)]
    /\ qpc' = "done"
    /\ UNCHANGED qInput
    /\ UNCHANGED <<execVars, decideVars, sleepVars, cacheVars>>
    /\ UNCHANGED ctlVars
    /\ UNCHANGED riskVars

NextReason == ReasonCall

SpecReason == InitReason /\ [][NextReason]_vars

\* the implied probability of each book's quote, 0.5 for a missing one;
\* the best quote of an outcome is the one with the smaller implied
\* probability, which is the one with the larger edge
DkHomeImplied == odds_to_probability(qInput.odds_data.dk_home)
TrueHomeImplied == odds_to_probability(qInput.odds_data.true_home)
DkAwayImplied == odds_to_probability(qInput.odds_data.dk_away)
TrueAwayImplied == odds_to_probability(qInput.odds_data.true_away)
HomeProb == qInput.home_win_probability
AwayProb == qInput.away_win_probability

\* C22: with quotes available, the market probability that goes with an
\* outcome's edge into the Kelly rule is the implied probability of the
\* best quote: the edge is the model probability minus that probability and
\* the Kelly fraction is computed from that same probability.
C22_KellyUsesBestQuote ==
    (qpc = "done" /\ qInput.odds_data.present) =>
        LET best_home == FMin(DkHomeImplied, TrueHomeImplied)
            best_away == FMin(DkAwayImplied, TrueAwayImplied)
        IN  /\ qOutput.market_comparison.home_edge = FSub(HomeProb, best_home)
            /\ qOutput.market_comparison.away_edge = FSub(AwayProb, best_away)
            /\ qOutput.ev_calculation.home_kelly
                   = kelly(FSub(HomeProb, best_home), best_home)
            /\ qOutput.ev_calculation.away_kelly
                   = kelly(FSub(AwayProb, best_away), best_away)

\* C23: with no odds data for the event the comparison raises nothing and
\* each outcome's edge is the model probability minus 0.5.
C23_NoQuotesFallback ==
    (qpc = "done" /\ ~qInput.odds_data.present) =>
        /\ qOutput.market_comparison.home_edge = FSub(HomeProb, float_of(Rat(1, 2)))
        /\ qOutput.market_comparison.away_edge = FSub(AwayProb, float_of(Rat(1, 2)))

InRange(stake) == RLe(Num(min_bet), stake) /\ RLe(stake, Num(max_bet))
FloatInRange(stake) == FLe(Float(min_bet), stake) /\ FLe(stake, Float(max_bet))
BestEdge ==
    FMax(qOutput.market_comparison.home_edge, qOutput.market_comparison.away_edge)

\* C24: an edge of 0 or less gives a stake of 0, in the decision (when no
\* outcome has a positive edge) and in the stake the execution module
\* computes for an outcome whose edge is 0 or less.
C24_NoEdgeNoStake ==
    qpc = "done" =>
        /\ FLe(BestEdge, Zero) => qOutput.decision.bet_size = Zero
        /\ FLe(qOutput.market_comparison.home_edge, Zero)
              => PyEq(qOutput.home_execution_stake, Num(0))
        /\ FLe(qOutput.market_comparison.away_edge, Zero)
              => PyEq(qOutput.away_execution_stake, Num(0))

\* the larger of the two edges, in percent, as make_betting_decision sees it
BestExpectedValue ==
    FMax(qOutput.ev_calculation.home_expected_value,
         qOutput.ev_calculation.away_expected_value)

\* C25: the stake lies in [min_bet, max_bet] wherever a stake is sized: in
\* the decision made on a game whose larger edge is above min_ev_threshold,
\* and in the stake the execution module computes for an edge greater than
\* 0.
C25_StakeInRange ==
    qpc = "done" =>
        /\ FLt(edge_threshold, BestExpectedValue)
              => FloatInRange(qOutput.decision.bet_size)
        /\ FLt(Zero, qOutput.market_comparison.home_edge)
              => InRange(qOutput.home_execution_stake)
        /\ FLt(Zero, qOutput.market_comparison.away_edge)
              => InRange(qOutput.away_execution_stake)

-----------------------------------------------------------------------------
(* SpecFloor: update_bankroll and validate_betting_decisions with a        *)
(* bankroll that losses may have driven below zero                         *)

\* amounts of lost bets passed to update_bankroll
FloorLosses == {600}

\* largest number of update_bankroll calls before the validation
MaxLosses == 2

InitFloor ==
    /\ rpc = "ready"
    /\ rHeap \in RiskBatches
    /\ rHeap0 = rHeap
    /\ rInput = [i \in 1..Len(rHeap) |-> i]
    /\ rOutput = <<>>
    /\ rFirstPass = <<>>
    /\ rTrace = <<>>
    /\ rBankroll = initial_bankroll
    /\ rBankroll0 = rBankroll
    /\ rLedger = [bets_today |-> 0, bet_results |-> <<>>]
    /\ rReads = <<>>
    /\ rPrev = <<>>
    /\ CtlIdle
    /\ ExecUnused
    /\ DecideUnused
    /\ ReasonUnused
    /\ SleepUnused
    /\ CacheUnused

\* update_bankroll(amount, is_win = False): the balance is debited without
\* any check of the new value, then the bankroll_update record is added to
\* the memory; when that add raises the debit has been made.  The first
\* conjunct of the body bounds the number of calls.
LoseBet ==
    /\ rpc = "ready"
    /\ \E amount \in FloorLosses, add_raises \in BOOLEAN :
          /\ initial_bankroll - rBankroll < MaxLosses * amount
          /\ rBankroll' = update_bankroll(Num(rBankroll), Num(amount), FALSE).n
          /\ memory' = IF add_raises THEN memory
                       ELSE Append(memory, MemRec("bankroll_update"))
    /\ rBankroll0' = rBankroll'
    /\ UNCHANGED <<rpc, rHeap, rHeap0, rInput, rOutput, rFirstPass, rTrace,
                   rLedger, rReads, rPrev>>
    /\ UNCHANGED <<state, is_running, loop, last_research_time, now, bankroll,
                   ticks, raised_in, executed, placed, fetch_failed, validated,
                   fetching>>
    /\ UNCHANGED callVars

NextFloor == LoseBet \/ ValidateCall

SpecFloor == InitFloor /\ [][NextFloor]_vars

\* C26: while the bankroll is below its floor (here: negative), every
\* decision passed to validate_betting_decisions comes back rejected, and
\* the call does not raise.
C26_BrokenLedgerRejectsAll ==
    (rpc \in {"done", "raised"} /\ rBankroll < 0) =>
        /\ rpc = "done"
        /\ \A i \in 1..Len(rOutput) : ~rHeap[rOutput[i]].should_bet

-----------------------------------------------------------------------------
(* SpecReads: validate_betting_decisions with the clock read and the       *)
(* memory searched anew by every check of every decision                   *)

\* the loop of validate_betting_decisions: _check_daily_bet_limit and
\* _check_daily_loss_limit search the memory each time they are called, so
\* decision i is checked against reads[i]
RECURSIVE first_pass_reading(_, _, _, _, _)
first_pass_reading(heap, ids, reads, out, traces) ==
    IF ids = <<>> THEN [heap |-> heap, out |-> out, traces |-> traces, raised |-> FALSE]
    ELSE Only({IF r.raised
               THEN [heap |-> r.heap, out |-> out, traces |-> Append(traces, r.trace),
                     raised |-> TRUE]
               ELSE first_pass_reading(r.heap, Tail(ids), Tail(reads), Append(out, r.id),
                                       Append(traces, r.trace)) :
               r \in {validate_betting_decision(heap, Head(ids), Head(reads))}})

validate_betting_decisions_reading(heap, ids, reads, self_bankroll) ==
    Only({IF p.raised
          THEN [heap |-> p.heap, out |-> <<>>, first |-> <<>>, traces |-> p.traces,
                raised |-> TRUE]
          ELSE Only({[heap |-> c.heap, out |-> c.out,
                      first |-> [i \in 1..Len(p.out) |-> p.heap[p.out[i]]],
                      traces |-> p.traces, raised |-> FALSE] :
                     c \in {apply_portfolio_constraints(p.heap, p.out, self_bankroll)}}) :
          p \in {first_pass_reading(heap, ids, reads, <<>>, <<>>)}})

\* datetime.now().date() as a day number: the day the calls begin on, and
\* the day after
ReadDays == {0, 1}

\* The bet_placed and bet_result records the store holds; all of them carry
\* a timestamp of day 0.  The store is the same for every search: nothing
\* is added to it or taken from it while the calls run.
ReadStores ==
    {[bets_today |-> b, bet_results |-> r] :
        b \in {0, daily_bet_limit - 1, daily_bet_limit},
        r \in {<<>>, <<[won |-> FALSE, amount |-> daily_loss_limit]>>}}

\* memory.search with the filter timestamp >= today_start, <= today_end
records_of_day(store, today) ==
    IF today = 0 THEN store ELSE [bets_today |-> 0, bet_results |-> <<>>]

\* what the two checks of one decision find: _check_daily_bet_limit on the
\* day clock.bet_limit, _check_daily_loss_limit on the day clock.loss_limit
reading(store, clock) ==
    [bets_today |-> records_of_day(store, clock.bet_limit).bets_today,
     bet_results |-> records_of_day(store, clock.loss_limit).bet_results]

\* the days datetime.now() gives the checks of a call on n decisions, in the
\* order the checks are made: the clock does not go back
Clocks(n) ==
    {c \in [1..n -> [bet_limit : ReadDays, loss_limit : ReadDays]] :
        /\ \A i \in 1..n : c[i].bet_limit <= c[i].loss_limit
        /\ \A i \in 1..(n - 1) : c[i].loss_limit <= c[i + 1].bet_limit}

\* longest decision list of a call
MaxReadBatch == 2

ReadBatches == UNION {[1..n -> DecisionInputs] : n \in 0..MaxReadBatch}

\* rLedger is the store, rReads the clocks of the calls made so far
InitReads ==
    /\ rpc = "ready"
    /\ rHeap \in ReadBatches
    /\ rHeap0 = rHeap
    /\ rInput = [i \in 1..Len(rHeap) |-> i]
    /\ rOutput = <<>>
    /\ rFirstPass = <<>>
    /\ rTrace = <<>>
    /\ rBankroll = initial_bankroll
    /\ rBankroll0 = rBankroll
    /\ rReads = <<>>
    /\ rPrev = <<>>
    /\ rLedger \in ReadStores
    /\ CtlIdle
    /\ ExecUnused
    /\ DecideUnused
    /\ ReasonUnused
    /\ SleepUnused
    /\ CacheUnused

\* a call on the list rInput while the clock shows the days of clocks
CallReading(clocks, after) ==
    \E r \in {validate_betting_decisions_reading(
                  rHeap, rInput,
                  [i \in 1..Len(rInput) |-> reading(rLedger, clocks[i])],
                  Num(rBankroll))} :
        /\ rpc' = IF r.raised THEN "raised" ELSE after
        /\ rHeap' = r.heap
        /\ rOutput' = r.out
        /\ rFirstPass' = r.first
        /\ rTrace' = r.traces
        /\ rReads' = Append(rReads, clocks)
        /\ UNCHANGED <<rHeap0, rInput, rBankroll, rBankroll0, rLedger>>
        /\ UNCHANGED ctlVars
        /\ UNCHANGED callVars

ValidateCallReading ==
    /\ rpc = "ready"
    /\ rPrev' = rPrev
    /\ \E clocks \in Clocks(Len(rInput)) : CallReading(clocks, "done")

\* the day the clock showed when the last call ended
day_reached == IF rInput = <<>> THEN 0 ELSE rReads[Len(rReads)][Len(rInput)].loss_limit

\* the same list is handed in once more, the store and the bankroll being
\* what they were
ValidateSameReading ==
    /\ rpc = "done"
    /\ rPrev' = [i \in 1..Len(rOutput) |-> rHeap[rOutput[i]]]
    /\ \E clocks \in Clocks(Len(rInput)) :
          /\ rInput # <<>> => day_reached <= clocks[1].bet_limit
          /\ CallReading(clocks, "same")

NextReads == ValidateCallReading \/ ValidateSameReading

SpecReads == InitReads /\ [][NextReads]_vars

\* the checks of decision i that searched the memory in the last call
Searched(i, check) == \E k \in 1..Len(rTrace[i]) : rTrace[i][k] = check

\* what the searches of decision i found in the last call
Found(i) == reading(rLedger, rReads[Len(rReads)][i])

\* C27: the daily aggregates a validation pass reads for one decision are
\* the ones it reads for every other decision of the pass: any two
\* decisions whose bet count check ran were given the same count of today's
\* bets, and any two whose loss check ran the same results of today.
C27_OneSnapshotPerPass ==
    rpc \in {"done", "same"} =>
        \A i, j \in 1..Len(rInput) :
            /\ (Searched(i, "bet_limit") /\ Searched(j, "bet_limit")) =>
                   Found(i).bets_today = Found(j).bets_today
            /\ (Searched(i, "loss_limit") /\ Searched(j, "loss_limit")) =>
                   Found(i).bet_results = Found(j).bet_results

\* today's records when a call begins
SnapshotAtStart(call) == records_of_day(rLedger, rReads[call][1].bet_limit)

\* C32: two calls with the same decision list, the same bankroll and the
\* same records of today when they begin return the same statuses, stakes
\* and notes.
C32_Deterministic ==
    (rpc = "same" /\ rInput # <<>> /\ SnapshotAtStart(1) = SnapshotAtStart(2)) =>
        /\ Len(rOutput) = Len(rPrev)
        /\ \A i \in 1..Len(rPrev) :
              /\ rHeap[rOutput[i]].should_bet = rPrev[i].should_bet
              /\ PyEq(rHeap[rOutput[i]].bet_size, rPrev[i].bet_size)
              /\ rHeap[rOutput[i]].note = rPrev[i].note

-----------------------------------------------------------------------------
(* Properties of monitor_outcomes (SpecExec) *)

SettlementsOf(i) ==
    {k \in DOMAIN xResult.settlements : xResult.settlements[k].entry = i}

\* C28: over any number of monitor_outcomes calls a placed bet gets at most
\* one settlement record, so a settled bet is not settled again and its
\* outcome does not change.
C28_SettledOnce ==
    xpc = "monitored" =>
        \A i \in DOMAIN xDecisions : Cardinality(SettlementsOf(i)) <= 1

-----------------------------------------------------------------------------
(* SpecSignal: the controller loop with the SIGINT / SIGTERM handler of    *)
(* main(), which calls agent.stop() and then sys.exit(0)                   *)

\* the runs of execute_research_tasks from where the handler is
research_runs ==
    IF fetching = NotFetching
    THEN execute_research_tasks(MaxGames - Researched)
    ELSE fetch_injury_reports(fetching.games, fetching.parsed, MaxGames - Researched)

\* what the signal handler leaves: stop() has cleared is_running, and
\* sys.exit(0) has raised SystemExit inside the handler of the state cur
Exited(cur) ==
    /\ is_running' = FALSE
    /\ loop' = "exited"
    /\ raised_in' = cur

\* the records a handler has added when it is left after k of the adds W
AddedFirst(W, k) == memory' = memory \o SubSeq(W, 1, k)

\* The signal arrives while _initialize or a state handler runs.  sys.exit
\* raises SystemExit where the handler is, which neither the handler's nor
\* start()'s "except Exception" catches: the handler has done the first k
\* of the things it does, and the rest, the assignment to self.state at its
\* end included, is not done.
\*
\* INITIALIZING: start() has set is_running, _initialize is adding.
\* RESEARCHING: from the handler's start or after a wait; stored tells
\* whether execute_research_tasks has stored the research time, which it
\* does after the fetches and before its own summary.
\* EXECUTING: W is the bet records, the execution result and the bankroll
\* updates; early tells whether what precedes the next add (the placing of
\* the bet it records, the debit it reports) was done already.
\* IDLE: the handler assigns RESEARCHING before it calls monitor_outcomes.
SignalDuringHandler ==
    /\ ticks < MaxTicks
    /\ \/ /\ loop = "not_started"
          /\ \E k \in 0..2 :
               AddedFirst(<<MemRec("system_event"), MemRec("research_queue")>>, k)
          /\ Exited("INITIALIZING")
          /\ UNCHANGED <<state, last_research_time, now, bankroll, executed, placed>>
       \/ /\ loop = "running" /\ is_running
          /\ state = "RESEARCHING"
          /\ \E s \in research_runs, stored \in BOOLEAN :
               LET d == IF fetching = NotFetching THEN 0 ELSE 1
                   n == IF s.wait \/ s.failed THEN 0 ELSE s.games
                   W == s.added
                           \o (IF n > 0 THEN <<MemRec("research_summary")>> ELSE <<>>)
                           \o [i \in 1..n |-> MemRec("research_result")]
                           \o (IF s.wait THEN <<>> ELSE <<MemRec("research_summary")>>)
               IN  \E k \in 0..Len(W) :
                     /\ stored => (s.updated /\ k >= Len(s.added))
                     /\ (s.updated /\ k > Len(s.added)) => stored
                     /\ AddedFirst(W, k)
                     /\ last_research_time' = IF stored THEN now + d
                                              ELSE last_research_time
                     /\ now' = now + d
          /\ Exited("RESEARCHING")
          /\ UNCHANGED <<state, bankroll, executed, placed>>
       \/ /\ loop = "running" /\ is_running
          /\ state = "REASONING"
          /\ \E research_data \in search({i \in DOMAIN memory : IsResearchResult(memory[i])}, search_limit) :
               \E decisions \in {[i \in 1..Len(research_data) |->
                                     reason_about([game_id |-> memory[research_data[i]].game_id,
                                                   odds_data |-> NoOdds], bankroll)]} :
                 \E W \in {reasoning_records(decisions)
                              \o <<MemRec("reasoning_result")>>
                              \o decision_records(SelectSeq(decisions, LAMBDA d : d.should_bet))} :
                   \E k \in 0..Len(W) : AddedFirst(W, k)
          /\ Exited("REASONING")
          /\ UNCHANGED <<state, last_research_time, now, bankroll, executed, placed>>
       \/ /\ loop = "running" /\ is_running
          /\ state = "RISK_ASSESSMENT"
          /\ \E betting_decisions \in search({i \in DOMAIN memory : IsBettingDecision(memory[i])}, search_limit),
                ledger \in CtlLedgers :
               \E r \in {validate_betting_decisions(
                             [i \in 1..Len(betting_decisions) |->
                                 Decision(memory[betting_decisions[i]].game_id,
                                          memory[betting_decisions[i]].team,
                                          memory[betting_decisions[i]].expected_value,
                                          memory[betting_decisions[i]].bet_size, TRUE)],
                             [i \in 1..Len(betting_decisions) |-> i], ledger, bankroll)} :
                 \E W \in {IF r.raised THEN <<>>
                           ELSE assessment_records(r.heap, r.out) \o <<MemRec("risk_metrics")>>} :
                   \E k \in 0..Len(W) : AddedFirst(W, k)
          /\ Exited("RISK_ASSESSMENT")
          /\ UNCHANGED <<state, last_research_time, now, bankroll, executed, placed>>
       \/ /\ loop = "running" /\ is_running
          /\ state = "EXECUTING"
          /\ \E risk_assessments \in search({i \in DOMAIN memory : IsApprovedAssessment(memory[i])}, search_limit) :
             \E lookups \in decision_lookups(risk_assessments) :
             \E approved_bets \in {approved_of(risk_assessments, lookups)} :
             \E execution_results \in {execute_betting_actions(approved_bets, bankroll)} :
               LET bets == recorded_bets(approved_bets, execution_results)
                   nplaced == Len(execution_results.bet_details)
                   W == IF approved_bets = <<>> THEN <<>>
                        ELSE bet_records(execution_results.bet_details)
                                \o <<MemRec("execution_result")>>
                                \o [i \in 1..Len(bets) |-> MemRec("bankroll_update")]
               IN  \E k \in 0..Len(W), early \in {0, 1} :
                     /\ execution_results.raised => k + early <= nplaced
                     /\ AddedFirst(W, k)
                     /\ executed' = IF approved_bets # <<>> /\ k + early > 0
                                    THEN Append(executed, [tick |-> ticks,
                                                           bets |-> approved_bets])
                                    ELSE executed
                     /\ placed' = placed \o
                           SubSeq(execution_results.bet_details, 1,
                                  IF approved_bets = <<>> THEN 0
                                  ELSE IF k + early < nplaced THEN k + early ELSE nplaced)
                     /\ bankroll' =
                           debit_first(bankroll, bets,
                                       IF k + early <= nplaced + 1 THEN 0
                                       ELSE IF k + early - nplaced - 1 < Len(bets)
                                            THEN k + early - nplaced - 1
                                            ELSE Len(bets))
          /\ Exited("EXECUTING")
          /\ UNCHANGED <<state, last_research_time, now>>
       \/ /\ loop = "running" /\ is_running
          /\ state = "IDLE"
          /\ \E d \in IdleWaits :
               LET current_time == now + d
                   last == IF last_research_time = NoTime THEN current_time
                           ELSE last_research_time
               IN  /\ now' = current_time
                   /\ state' \in {"IDLE"} \cup
                                 (IF current_time - last > research_interval
                                  THEN {"RESEARCHING"} ELSE {})
          /\ Exited("IDLE")
          /\ UNCHANGED <<memory, last_research_time, bankroll, executed, placed>>
       \/ /\ loop = "running" /\ is_running
          /\ state = "ERROR"
          /\ \E k \in 0..1 : AddedFirst(<<MemRec("system_event")>>, k)
          /\ Exited("ERROR")
          /\ UNCHANGED <<state, last_research_time, now, bankroll, executed, placed>>
    /\ UNCHANGED <<ticks, fetch_failed, validated, fetching>>
    /\ UNCHANGED riskVars
    /\ UNCHANGED callVars

\* The signal arrives during a time.sleep: between two ticks, or inside
\* _handle_research_state while it waits after a page.
SignalDuringSleep ==
    /\ loop = "running"
    /\ is_running
    /\ is_running' = FALSE
    /\ loop' = "exited"
    /\ UNCHANGED <<state, memory, last_research_time, now, bankroll, ticks,
                   raised_in, executed, placed, fetch_failed, validated, fetching>>
    /\ UNCHANGED riskVars
    /\ UNCHANGED callVars

NextSignal == Next \/ SignalDuringHandler \/ SignalDuringSleep

SpecSignal == Init /\ [][NextSignal]_vars

\* C29: a stop request does not cut a handler short: the step in which
\* is_running becomes False leaves the state and the stored records as they
\* are, a handler that is waiting is not abandoned, and once is_running is
\* False no handler is begun any more.
C29_StopAtTickBoundary ==
    [][/\ (loop = "running" /\ is_running /\ ~is_running')
            => (state' = state /\ memory' = memory)
       /\ (loop = "running" /\ fetching # NotFetching) => loop' = "running"
       /\ (loop = "running" /\ ~is_running /\ fetching = NotFetching)
            => (state' = state /\ memory' = memory /\ ticks' = ticks)]_vars

-----------------------------------------------------------------------------
(* SpecSleep: the pause AgentController.start makes between two ticks,    *)
(* for every tick duration                                                 *)

\* longest tick duration tried, in seconds: up to twice the loop interval
MaxElapsed == 120

\* Python's max on two integers
max(a, b) == IF a >= b THEN a ELSE b

InitSleep ==
    /\ CtlIdle
    /\ RiskUnused
    /\ ExecUnused
    /\ DecideUnused
    /\ ReasonUnused
    /\ CacheUnused
    /\ slpc = "ready"
    /\ sElapsed \in 0..MaxElapsed
    /\ sSleep = 0

\* AgentController.start: the sleep after a tick that took sElapsed seconds
SleepCall ==
    /\ slpc = "ready"
    /\ sSleep' = sleep_time(sElapsed)
    /\ slpc' = "controller_slept"
    /\ UNCHANGED <<ctlVars, riskVars, execVars, decideVars, reasonVars,
                   cacheVars, sElapsed>>

NextSleep == SleepCall

SpecSleep == InitSleep /\ [][NextSleep]_vars

\* C30: after a tick that took sElapsed seconds the controller sleeps
\* max(1, loop_interval - sElapsed) seconds: at least 1, and less the longer
\* the tick took.
C30_SleepIsIntervalMinusElapsed ==
    slpc = "controller_slept" => sSleep = max(1, loop_interval - sElapsed)

-----------------------------------------------------------------------------
(* SpecAgain: validate_betting_decisions called a second time, on the list *)
(* the first call returned, with any reading of the day's records          *)

\* longest decision list tried twice
MaxAgain == 2

AgainBatches == UNION {[1..n -> DecisionInputs] : n \in 0..MaxAgain}

InitAgain ==
    /\ rpc = "ready"
    /\ rHeap \in AgainBatches
    /\ rHeap0 = rHeap
    /\ rInput = [i \in 1..Len(rHeap) |-> i]
    /\ rOutput = <<>>
    /\ rFirstPass = <<>>
    /\ rTrace = <<>>
    /\ rBankroll = initial_bankroll
    /\ rBankroll0 = rBankroll
    /\ rLedger \in RiskLedgers
    /\ rReads = <<>>
    /\ rPrev = <<>>
    /\ CtlIdle
    /\ ExecUnused
    /\ DecideUnused
    /\ ReasonUnused
    /\ SleepUnused
    /\ CacheUnused

\* the decisions a call returned, as values
returned(heap, out) == [i \in 1..Len(out) |-> heap[out[i]]]

\* the returned list is validated again, whatever the day's records are by then
ValidateAgain ==
    /\ rpc = "done"
    /\ \E ledger \in RiskLedgers :
       \E r \in {validate_betting_decisions(rHeap, rOutput, ledger, Num(rBankroll))} :
          /\ rpc' = IF r.raised THEN "raised" ELSE "again"
          /\ rPrev' = returned(rHeap, rOutput)
          /\ rHeap0' = rHeap
          /\ rInput' = rOutput
          /\ rLedger' = ledger
          /\ rHeap' = r.heap
          /\ rOutput' = r.out
          /\ rFirstPass' = r.first
          /\ rTrace' = r.traces
    /\ UNCHANGED <<rBankroll, rBankroll0, rReads>>
    /\ UNCHANGED ctlVars
    /\ UNCHANGED callVars

NextAgain == ValidateCall \/ ValidateAgain

SpecAgain == InitAgain /\ [][NextAgain]_vars

RejectedForEdge(d) == ~d.should_bet /\ d.note = "ev_below_threshold"

\* C31: a decision that was rejected for an edge below the threshold comes
\* back from a second validation as it went in: should_bet False, the same
\* stake, the same note, whatever the day's records are.
C31_RejectionIdempotent ==
    rpc = "again" =>
        \A i \in 1..Len(rPrev) :
            RejectedForEdge(rPrev[i]) => rHeap[rOutput[i]] = rPrev[i]

\* a rejected decision went through a second validation, next to one that the
\* first call approved and the second call rejected for the day's bet count
C31_Witness ==
    /\ rpc = "again"
    /\ \E i, j \in 1..Len(rPrev) :
          /\ RejectedForEdge(rPrev[i])
          /\ rPrev[i].bet_size = Num(200)
          /\ rHeap[rOutput[i]] = rPrev[i]
          /\ rPrev[j].should_bet
          /\ rHeap[rOutput[j]].note = "daily_bet_limit"

-----------------------------------------------------------------------------
(* SpecMode: main() sets the mode from its environment and its flags, then *)
(* the execution module is given a decision list                           *)

\* DEFAULT_CONFIG["agent"]["test_mode"]
default_test_mode == TRUE

\* NBA_AGENT_AGENT__TEST_MODE as _parse_env_value reads it: "true", "yes"
\* and "1" give True, "false", "no" and "0" give False.  Any other text is
\* kept as a number or a string; such values are not among the inputs.
EnvTestModes == {"unset", "true", "false"}

\* _update_from_env: config["agent"]["test_mode"] once the environment has
\* been written over it
update_from_env(test_mode, args) ==
    IF args.env_test_mode = "unset" THEN test_mode
    ELSE args.env_test_mode = "true"

\* main: the mode flags written over config["agent"]["test_mode"]
update_from_flags(test_mode, args) ==
    IF args.test THEN TRUE
    ELSE IF args.sim THEN TRUE
    ELSE IF args.live THEN FALSE
    ELSE test_mode

\* main: config["agent"]["test_mode"] when the controller is built.
\* get_config() (load_settings) applies the environment to a shallow copy of
\* DEFAULT_CONFIG, main applies the flags, and setup_logging() calls
\* get_config() again, which applies the environment once more to the
\* "agent" dict that every copy shares.
main_test_mode(args) ==
    update_from_env(update_from_flags(update_from_env(default_test_mode, args), args),
                    args)

\* main: live mode without a Polymarket API key ends the process (sys.exit(1))
\* before the controller is built
main_exits(args) == main_test_mode(args) = FALSE /\ ~args.env_api_key

ModeArgs ==
    [test : BOOLEAN, sim : BOOLEAN, live : BOOLEAN,
     env_test_mode : EnvTestModes, env_api_key : BOOLEAN]

InitMode ==
    /\ xpc = "main"
    /\ xDecisions \in ExecBatches
    /\ xArgs \in ModeArgs
    /\ xTestMode = default_test_mode
    /\ xVenue \in [1..Len(xDecisions) -> VenueAnswers]
    /\ xAddRaises = -1
    /\ xResult = NothingDone
    /\ CtlIdle
    /\ RiskUnused
    /\ DecideUnused
    /\ ReasonUnused
    /\ SleepUnused
    /\ CacheUnused

\* main() up to AgentController(config)
Main ==
    /\ xpc = "main"
    /\ xTestMode' = main_test_mode(xArgs)
    /\ xpc' = IF main_exits(xArgs) THEN "exited" ELSE "ready"
    /\ UNCHANGED <<xDecisions, xArgs, xVenue, xAddRaises, xResult>>
    /\ UNCHANGED <<decideVars, reasonVars, sleepVars, cacheVars>>
    /\ UNCHANGED ctlVars
    /\ UNCHANGED riskVars

NextMode == Main \/ ExecuteCall

SpecMode == InitMode /\ [][NextMode]_vars

\* the controller has been built with main()'s configuration
ModeSet == xpc \in {"ready", "done", "raised"}

\* C33: while test_mode is set execute_betting_actions submits nothing to
\* the venue, whatever the decision list, and the agent main() starts has
\* test_mode set unless --live was given.
C33_DryRunSubmitsNothing ==
    /\ (xpc \in {"done", "raised"} /\ xTestMode) =>
           \A i \in DOMAIN xDecisions : ~xResult.submitted[i]
    /\ (ModeSet /\ ~xTestMode) => xArgs.live

-----------------------------------------------------------------------------
(* Properties of the bet size (SpecRisk) *)

OutOfRange(size) == RLt(size, Num(min_bet)) \/ RLt(Num(max_bet), size)
Clamped(size) == PyMax(Num(min_bet), PyMin(size, Num(max_bet)))

\* C34: a decision whose stake is outside [min_bet, max_bet] and which fails
\* no other check comes back from validate_betting_decision approved, with
\* the stake clamped into the range, the stake it came with kept as
\* original_bet_size and a note that records the adjustment.
C34_ClampedNotRejected ==
    RiskDone =>
        \A i \in InputIdx :
            (/\ InputDecision(i).should_bet
             /\ EdgeOk(InputDecision(i))
             /\ OutOfRange(InputDecision(i).bet_size)
             /\ rLedger.bets_today < daily_bet_limit
             /\ LossToday < daily_loss_limit) =>
                /\ rFirstPass[i].should_bet
                /\ rFirstPass[i].bet_size = Clamped(InputDecision(i).bet_size)
                /\ rFirstPass[i].note = "bet_size_adjusted"
                /\ rFirstPass[i].original_bet_size = InputDecision(i).bet_size

\* a stake of 5 was raised to min_bet and a stake of 200 lowered to max_bet,
\* both decisions approved
C34_Witness ==
    /\ RiskDone
    /\ \E i, j \in InputIdx :
          /\ InputDecision(i).bet_size = Num(5)
          /\ rFirstPass[i].should_bet
          /\ rFirstPass[i].bet_size = Num(min_bet)
          /\ rFirstPass[i].note = "bet_size_adjusted"
          /\ InputDecision(j).bet_size = Num(200)
          /\ rFirstPass[j].should_bet
          /\ rFirstPass[j].bet_size = Num(max_bet)
          /\ rFirstPass[j].note = "bet_size_adjusted"

-----------------------------------------------------------------------------
(* From monitor_outcomes to the risk module's daily loss (SpecExec) *)

IsBetResult(r) == r.type = "bet_result"

\* what the search of _check_daily_loss_limit and get_risk_metrics, which
\* asks for records of type "bet_result", finds among the records
\* monitor_outcomes stored
bet_results_found(records) == SelectSeq(records, IsBetResult)

\* total_loss / total_lost_today computed from those records
lost_today_seen(records) == total_loss(bet_results_found(records))

\* the stake of entry i
StakeOf(i) == calculate_bet_size(xDecisions[i].expected_value, Num(initial_bankroll))

\* the stakes of the bets settled as lost
SettledLosses ==
    RSum([k \in 1..Len(xResult.settlements) |->
             IF xResult.settlements[k].outcome = "lost"
             THEN StakeOf(xResult.settlements[k].entry)
             ELSE Num(0)])

\* C36: the amount lost today that the risk module reads after
\* monitor_outcomes is the sum of the stakes settled as lost, and once that
\* sum has reached daily_loss_limit the daily loss check fails.
C36_SettledLossesReachRisk ==
    xpc = "monitored" =>
        /\ PyEq(Num(lost_today_seen(xResult.settlements)), SettledLosses)
        /\ RLe(Num(daily_loss_limit), SettledLosses) =>
               ~check_daily_loss_limit([bets_today |-> 0,
                                        bet_results |-> bet_results_found(xResult.settlements)])

-----------------------------------------------------------------------------
(* The stake after portfolio scaling (SpecRisk) *)

InRangeStake(size) == RLe(Num(min_bet), size) /\ RLe(size, Num(max_bet))

ApprovedOut == {i \in 1..Len(rOutput) : OutputDecision(i).should_bet}

\* C37: every decision validate_betting_decisions returns with should_bet
\* set has a stake within [min_bet, max_bet], also when the portfolio pass
\* has scaled the stakes.
C37_ApprovedStakeInRange ==
    RiskDone =>
        \A i \in ApprovedOut : InRangeStake(OutputDecision(i).bet_size)

-----------------------------------------------------------------------------
(* SpecDay: the controller's risk assessment and execution ticks after a   *)
(* reasoning tick that proposed more bets than the day allows              *)

\* games researched and reasoned about in the cycle: one more than the
\* day's allowance of bets
DayGames == daily_bet_limit + 1

\* what execute_reasoning_tasks decided for the games
day_decisions ==
    [i \in 1..DayGames |-> reason_about([game_id |-> "None", odds_data |-> NoOdds],
                                        Num(initial_bankroll))]

\* the records of rs as added in tick t
added_in(t, rs) == [i \in 1..Len(rs) |-> [rs[i] EXCEPT !.tick = t]]

\* the store at the end of the cycle's reasoning tick: what __init__,
\* start(), _handle_research_state (tick 0) and _handle_reasoning_state
\* (tick 1) have added
day_store ==
    added_in(0, <<MemRec("persona_config"), MemRec("system_event"),
                  MemRec("research_queue"), MemRec("research_summary")>>
                \o [i \in 1..DayGames |-> MemRec("research_result")]
                \o <<MemRec("research_summary")>>)
    \o added_in(1, reasoning_records(day_decisions)
                   \o <<MemRec("reasoning_result")>>
                   \o decision_records(SelectSeq(day_decisions, LAMBDA d : d.should_bet)))

\* the loop is about to make its third tick, in RISK_ASSESSMENT
InitDay ==
    /\ state = "RISK_ASSESSMENT"
    /\ is_running = TRUE
    /\ loop = "running"
    /\ ticks = 2
    /\ fetching = NotFetching
    /\ last_research_time = 0
    /\ now = 2 * sleep_time(0)
    /\ bankroll = Num(initial_bankroll)
    /\ raised_in = "None"
    /\ executed = <<>>
    /\ placed = <<>>
    /\ fetch_failed = FALSE
    /\ validated = {}
    /\ memory = day_store
    /\ RiskUnused
    /\ ExecUnused
    /\ DecideUnused
    /\ ReasonUnused
    /\ SleepUnused
    /\ CacheUnused

NextDay == HandleRisk \/ HandleExecution \/ HandleError

SpecDay == InitDay /\ [][NextDay]_vars

\* C35: the bets the execution module has placed never number more than
\* daily_bet_limit, also after a validation pass that was given more
\* approvable decisions than the day allows.
C35_PlacedWithinDailyLimit ==
    Len(placed) <= daily_bet_limit

\* the six decisions of the cycle were approved together, all six were
\* handed to execute_betting_actions, and it placed no bet
C35_Witness ==
    /\ state = "IDLE"
    /\ \E c \in Calls : Len(executed[c].bets) > daily_bet_limit
    /\ placed = <<>>

\* C38: every amount placed is the stake risk validation approved for the
\* decision: a bet placed for a game and a team has the amount that an
\* entry handed to execute_betting_actions for that game and team carries
\* as bet_size, the adjusted_bet_size of its risk assessment.
C38_PlacedStakeIsApprovedStake ==
    \A k \in 1..Len(placed) :
        \E c \in Calls : \E b \in BetsOf(c) :
            /\ executed[c].bets[b].game_id = placed[k].game_id
            /\ executed[c].bets[b].team = placed[k].team
            /\ PyEq(placed[k].amount, executed[c].bets[b].bet_size)

\* an entry whose stake the portfolio pass had scaled down was handed to
\* execute_betting_actions, which placed nothing for it
C38_Witness ==
    /\ state = "IDLE"
    /\ placed = <<>>
    /\ \E c \in Calls : \E b \in BetsOf(c) :
          /\ memory[executed[c].bets[b].assessment].should_bet
          /\ RLt(executed[c].bets[b].bet_size,
                 memory[executed[c].bets[b].assessment].original_bet_size)

-----------------------------------------------------------------------------
(* SpecCache: Mem0Client's cache of search results, with the writes that   *)
(* are to invalidate it and the clock that expires it                      *)

\* Mem0Client.__init__: cache_ttl
cache_ttl == 300

\* writes tried
MaxWrites == 2

\* the clock is followed up to this time
MaxClock == 600

\* seconds that pass between two calls: just under the TTL, or the TTL
TimeSteps == {cache_ttl - 1, cache_ttl}

CacheQueries == {"q1", "q2"}
CacheIds == {"m1"}

\* the keys search and get / add / update use
search_key(q) == <<"search", q>>
memory_key(id) == <<"memory", id>>
CacheKeys == {search_key(q) : q \in CacheQueries} \cup {memory_key(id) : id \in CacheIds}

\* the key add, update and delete pass to _invalidate_cache for the search
\* results
SearchResultsKey == <<"search">>
NoKey == <<>>

\* _add_to_cache
add_to_cache(cache, key, data) ==
    [cache EXCEPT ![key] = <<[data |-> data, timestamp |-> mNow]>>]

\* _get_from_cache: <<>> for None
get_from_cache(cache, key) ==
    IF key \in DOMAIN cache /\ cache[key] # <<>>
          /\ mNow - cache[key][1].timestamp < cache_ttl
    THEN <<cache[key][1].data>>
    ELSE <<>>

\* _invalidate_cache: every entry when no key is given, else the entry
\* stored under exactly that key, if there is one
invalidate_cache(cache, key) ==
    IF key = NoKey THEN [k \in DOMAIN cache |-> <<>>]
    ELSE IF key \in DOMAIN cache THEN [cache EXCEPT ![key] = <<>>]
    ELSE cache

InitCache ==
    /\ mpc = "ready"
    /\ mServer = 0
    /\ mCache = [k \in CacheKeys |-> <<>>]
    /\ mNow = 0
    /\ mSeen = <<>>
    /\ CtlIdle
    /\ RiskUnused
    /\ ExecUnused
    /\ DecideUnused
    /\ ReasonUnused
    /\ SleepUnused

OthersUnchanged ==
    /\ UNCHANGED <<ctlVars, riskVars, execVars, decideVars, reasonVars, sleepVars>>
    /\ UNCHANGED mpc

\* search(q): the cached list if there is a live one, else the service's
\* answer, which is cached, as is every item in it (holds_item: the answer
\* holds item m1); an exception of the request gives []
Search ==
    /\ mpc = "ready"
    /\ \E q \in CacheQueries, ok \in BOOLEAN, holds_item \in BOOLEAN :
          LET cached_result == get_from_cache(mCache, search_key(q))
              with_list == add_to_cache(mCache, search_key(q), mServer)
          IN  IF cached_result # <<>>
              THEN /\ mSeen' = [query |-> q, from_cache |-> TRUE,
                                data |-> cached_result[1], writes |-> mServer]
                   /\ UNCHANGED mCache
              ELSE IF ok
              THEN /\ mCache' = IF holds_item
                                THEN add_to_cache(with_list, memory_key("m1"), mServer)
                                ELSE with_list
                   /\ mSeen' = [query |-> q, from_cache |-> FALSE,
                                data |-> mServer, writes |-> mServer]
              ELSE /\ mSeen' = [query |-> q, from_cache |-> FALSE,
                                data |-> -1, writes |-> mServer]
                   /\ UNCHANGED mCache
    /\ UNCHANGED <<mServer, mNow>>
    /\ OthersUnchanged

\* how a writing request ends: "ok", the service has written and the client
\* has its answer; "failed", the request raises and nothing is written;
\* "lost", the service has written and the client raises all the same (the
\* answer times out, carries an error status or is not JSON).  Writes are
\* followed up to MaxWrites.
WriteOutcomes ==
    IF mServer < MaxWrites THEN {"ok", "failed", "lost"} ELSE {"failed"}

\* add(memory_item); has_id: the answer carries the id of the new item
Add ==
    /\ mpc = "ready"
    /\ \E outcome \in WriteOutcomes, has_id \in BOOLEAN :
          /\ mServer' = IF outcome = "failed" THEN mServer ELSE mServer + 1
          /\ mCache' =
                IF outcome # "ok" THEN mCache
                ELSE IF has_id
                THEN add_to_cache(invalidate_cache(mCache, SearchResultsKey),
                                  memory_key("m1"), mServer + 1)
                ELSE invalidate_cache(mCache, SearchResultsKey)
    /\ UNCHANGED <<mNow, mSeen>>
    /\ OthersUnchanged

\* get(memory_id): the cache after the call and whether an item came back;
\* ok: the request, if one is made, succeeds
get(cache, id, ok) ==
    IF get_from_cache(cache, memory_key(id)) # <<>> THEN [cache |-> cache, found |-> TRUE]
    ELSE IF ok THEN [cache |-> add_to_cache(cache, memory_key(id), mServer), found |-> TRUE]
    ELSE [cache |-> cache, found |-> FALSE]

Get ==
    /\ mpc = "ready"
    /\ \E id \in CacheIds, ok \in BOOLEAN :
          mCache' = get(mCache, id, ok).cache
    /\ UNCHANGED <<mServer, mNow, mSeen>>
    /\ OthersUnchanged

\* update(memory_id, updates): get, then the PATCH request unless get
\* returned nothing
Update ==
    /\ mpc = "ready"
    /\ \E id \in CacheIds, get_ok \in BOOLEAN, outcome \in WriteOutcomes :
          LET current == get(mCache, id, get_ok)
          IN  IF ~current.found
              THEN /\ mCache' = current.cache
                   /\ UNCHANGED mServer
              ELSE /\ mServer' = IF outcome = "failed" THEN mServer ELSE mServer + 1
                   /\ mCache' =
                         IF outcome # "ok" THEN current.cache
                         ELSE add_to_cache(
                                  invalidate_cache(
                                      invalidate_cache(current.cache, memory_key(id)),
                                      SearchResultsKey),
                                  memory_key(id), mServer + 1)
    /\ UNCHANGED <<mNow, mSeen>>
    /\ OthersUnchanged

\* delete(memory_id)
Delete ==
    /\ mpc = "ready"
    /\ \E id \in CacheIds, outcome \in WriteOutcomes :
          /\ mServer' = IF outcome = "failed" THEN mServer ELSE mServer + 1
          /\ mCache' =
                IF outcome # "ok" THEN mCache
                ELSE invalidate_cache(invalidate_cache(mCache, memory_key(id)),
                                      SearchResultsKey)
    /\ UNCHANGED <<mNow, mSeen>>
    /\ OthersUnchanged

\* delete_all()
DeleteAll ==
    /\ mpc = "ready"
    /\ \E outcome \in WriteOutcomes :
          /\ mServer' = IF outcome = "failed" THEN mServer ELSE mServer + 1
          /\ mCache' = IF outcome # "ok" THEN mCache
                       ELSE invalidate_cache(mCache, NoKey)
    /\ UNCHANGED <<mNow, mSeen>>
    /\ OthersUnchanged

\* time passes between two calls
Pass ==
    /\ mpc = "ready"
    /\ \E d \in TimeSteps :
          /\ mNow + d <= MaxClock
          /\ mNow' = mNow + d
    /\ UNCHANGED <<mServer, mCache, mSeen>>
    /\ OthersUnchanged

NextCache == Search \/ Add \/ Get \/ Update \/ Delete \/ DeleteAll \/ Pass

SpecCache == InitCache /\ [][NextCache]_vars

\* C39: a list that search takes from the cache reflects every write
\* completed before the search: no list cached before an add, update or
\* delete is returned after it.
C39_WritesInvalidateSearches ==
    (mSeen # <<>> /\ mSeen.from_cache) => mSeen.data = mSeen.writes

=============================================================================
